---- MODULE Spec2Model ----
(***************************************************************************)
(* Wallet readiness / fee-mode dispatch of src/src/wallet/index.ts.        *)
(*                                                                         *)
(* A wallet is created once (Wallet.create) and then serves invocations of *)
(* isDeployed, ensureReady, deploy, execute and preflight, each an async   *)
(* function:                                                               *)
(* the code between two awaits is one atomic action, and every awaited     *)
(* collaborator (network client, sponsor callback, transaction handle)     *)
(* settles by an action of its own, resolving or rejecting.  Each          *)
(* invocation keeps a trace of what it did to the outside world: progress  *)
(* events handed to the observer, calls made to collaborators and the      *)
(* settlements it received.                                                *)
(***************************************************************************)
EXTENDS Naturals, Sequences, FiniteSets, TLC

VARIABLES creation, wallet, inv, calc

vars == <<creation, wallet, inv, calc>>

(***************************************************************************)
(* Bounds                                                                  *)
(***************************************************************************)
\* longest list of calls handed to execute
MaxCalls == 1

\* longest text given to an Amount factory
MaxLen == 4

\* largest number of decimal places of an Amount
MaxDecimals == 2

\* largest integer given to an Amount factory as a bigint or a number
MaxBase == 120

\* largest base value of the operands of comparisons and arithmetic
MaxOperand == 2

\* longest chain of arithmetic calls
MaxSteps == 1

\* largest integer given to multiply and divide as a bigint or a number
MaxScalar == 4

(***************************************************************************)
(* Values                                                                  *)
(***************************************************************************)
\* the JavaScript value undefined (an omitted option or field)
Undefined == "undefined"

FeeModes == {"user_pays", "sponsored"}

DeployModes == {"if_needed", "always", "never"}

ChainIds == {"SN_SEPOLIA"}

Addresses == {"0xacc1"}

\* per-call and wallet-level policy hints
CallHints == {"hintCall"}

DefaultHints == {"hintDefault"}

CallNames == {"transfer", "approve"}

RECURSIVE SeqsUpTo(_, _)
SeqsUpTo(S, n) ==
    IF n = 0 THEN {<<>>}
    ELSE LET shorter == SeqsUpTo(S, n - 1)
         IN  shorter \cup {Append(s, x) : s \in {t \in shorter : Len(t) = n - 1}, x \in S}

CallLists == SeqsUpTo(CallNames, MaxCalls)

\* thrown values: an Error instance with its message, or any other value
\* (whose own "message" property, if it has one, the code never reads)
Err(m) == [isError |-> TRUE, message |-> m]

NonError(m) == [isError |-> FALSE, message |-> m]

ErrSponsorRequired == "Cannot use feeMode='sponsored' without configuring sponsor in SDKConfig"

ErrDeployNever == "Account not deployed and deploy mode is 'never'"

ErrSponsorNotConfigured == "Sponsor not configured. Set sponsor in SDKConfig to use feeMode='sponsored'"

SponsorshipRejectedPrefix == "Sponsorship rejected: "

UnknownError == "Unknown error"

\* what the collaborators can fail with
AddressFailures == {Err("address derivation failed")}

ClassHashFailures == {Err("Contract not found")}

SponsorFailures == {Err("Rate limit exceeded"), NonError("quota exhausted"), NonError(Undefined)}

SubmitFailures == {Err("submission failed")}

WaitFailures == {Err("transaction reverted")}

SimulateFailures == {Err("simulation unavailable"), NonError("fault")}

\* PreflightOptions.kind: "execute" and kinds other than it
PreflightKinds == {"execute", "deploy", "transfer"}

\* what account.simulateTransaction can resolve with, by what preflight
\* looks at: no first result, a result without transaction_trace, a trace
\* without execute_invocation, an invocation without revert_reason, and an
\* invocation with the key revert_reason (whose value may be undefined)
SimulationShapes == {"empty", "noTrace", "noInvocation", "succeeded", "reverted"}

RevertReasons == {"Insufficient balance", "", Undefined}

SimulationResults ==
    [shape : SimulationShapes \ {"reverted"}, revertReason : {Undefined}]
    \cup [shape : {"reverted"}, revertReason : RevertReasons]

\* what provider.getClassHashAt can resolve with
ClassHashValues == {"0x061dac", "", Undefined}

TxHashes == {"0x7a"}

\* TransactionFinalityStatus members named by ensureReady
ACCEPTED_ON_L2 == "ACCEPTED_ON_L2"

ACCEPTED_ON_L1 == "ACCEPTED_ON_L1"

\* SponsorshipResponse: four optional fields
ResponseFields == {"resourceBounds", "paymasterData", "accountDeploymentData", "tip"}

\* what the sponsor callback can resolve with: each field absent, null,
\* empty ("[]"), zero ("0n") or set, and a paymaster-specific field more
SponsorshipResponses ==
    [resourceBounds : {Undefined, "null", "bounds"},
     paymasterData : {Undefined, "[]"},
     accountDeploymentData : {Undefined, "depdata"},
     tip : {Undefined, "null", "0n"},
     signature : {Undefined, "sig"}]

\* JavaScript truthiness of the values above
IsTruthy(v) == v \notin {Undefined, "null", "", "0n", "0", "false"}

(***************************************************************************)
(* Traces                                                                  *)
(***************************************************************************)
Ev(kind, arg) == [kind |-> kind, arg |-> arg]

ProgressEv(step) == Ev("progress", [step |-> step])

\* onProgress?.({ step })
Progress(options, step) ==
    IF options.onProgress THEN <<ProgressEv(step)>> ELSE <<>>

IsProgress(e) == e.kind = "progress"

StepOf(e) == e.arg.step

RECURSIVE MapSteps(_)
MapSteps(s) == IF s = <<>> THEN <<>> ELSE <<StepOf(Head(s))>> \o MapSteps(Tail(s))

\* the steps the progress observer received, in order
Steps(trace) == MapSteps(SelectSeq(trace, IsProgress))

Count(trace, kind) == Cardinality({k \in 1..Len(trace) : trace[k].kind = kind})

\* position of the first event of a kind (0 when there is none)
FirstIndex(trace, kind) ==
    IF \E k \in 1..Len(trace) : trace[k].kind = kind
    THEN CHOOSE k \in 1..Len(trace) :
            /\ trace[k].kind = kind
            /\ \A j \in 1..(k - 1) : trace[j].kind # kind
    ELSE 0

StepIndex(trace, step) ==
    IF \E k \in 1..Len(trace) : trace[k] = ProgressEv(step)
    THEN CHOOSE k \in 1..Len(trace) :
            /\ trace[k] = ProgressEv(step)
            /\ \A j \in 1..(k - 1) : trace[j] # ProgressEv(step)
    ELSE 0

(***************************************************************************)
(* Wallet.create                                                           *)
(***************************************************************************)
\* a parameter default: `x = d` in a parameter list or a destructuring
WithDefault(v, d) == IF v = Undefined THEN d ELSE v

\* mutant: the sponsor configuration is not validated at construction
CreateRejects_Never(defaultFeeMode, sponsor) == FALSE

\* if (defaultFeeMode === "sponsored" && !config.sponsor) throw
CreateRejects(defaultFeeMode, sponsor) ==
    defaultFeeMode = "sponsored" /\ ~sponsor

NoWallet ==
    [exists |-> FALSE, address |-> Undefined, chainId |-> Undefined,
     sponsor |-> FALSE, defaultFeeMode |-> Undefined,
     defaultPolicyHint |-> Undefined]

NoCreation ==
    [pc |-> "idle", sponsor |-> FALSE, chainId |-> Undefined,
     defaultFeeMode |-> Undefined, defaultPolicyHint |-> Undefined,
     trace |-> <<>>, error |-> Err(Undefined)]

\* Wallet.create up to its first await
CreateCall(sponsor, chainId, feeModeArg, hintArg) ==
    /\ creation.pc = "idle"
    /\ LET defaultFeeMode == WithDefault(feeModeArg, "user_pays")
           c == [NoCreation EXCEPT !.sponsor = sponsor, !.chainId = chainId,
                                   !.defaultFeeMode = defaultFeeMode,
                                   !.defaultPolicyHint = hintArg]
       IN  creation' =
             IF CreateRejects(defaultFeeMode, sponsor)
             THEN [c EXCEPT !.pc = "failed", !.error = Err(ErrSponsorRequired)]
             ELSE [c EXCEPT !.pc = "awaitAddress",
                            !.trace = <<Ev("getAddress", [none |-> TRUE])>>]
    /\ UNCHANGED <<wallet, inv, calc>>

\* accountProvider.getAddress() resolves: the constructor runs
CreateAddressResolves(address) ==
    /\ creation.pc = "awaitAddress"
    /\ creation' = [creation EXCEPT !.pc = "done"]
    /\ wallet' = [exists |-> TRUE, address |-> address,
                  chainId |-> creation.chainId,
                  sponsor |-> creation.sponsor,
                  defaultFeeMode |-> creation.defaultFeeMode,
                  defaultPolicyHint |-> creation.defaultPolicyHint]
    /\ UNCHANGED <<inv, calc>>

\* accountProvider.getAddress() rejects: create rejects, no wallet
CreateAddressRejects(e) ==
    /\ creation.pc = "awaitAddress"
    /\ creation' = [creation EXCEPT !.pc = "failed", !.error = e]
    /\ UNCHANGED <<wallet, inv, calc>>

(***************************************************************************)
(* Invocations of isDeployed, ensureReady, deploy, execute and preflight   *)
(***************************************************************************)
\* identifiers of invocations
Invocations == DOMAIN inv

\* one caller at a time, and two callers at once
OneCaller == {1}

TwoCallers == {1, 2}

NoOptions ==
    [deploy |-> Undefined, feeMode |-> Undefined,
     sponsorPolicyHint |-> Undefined, onProgress |-> FALSE]

\* EnsureReadyOptions: deploy mode, observer, and the options handed on to deploy
EnsureReadyOptionSet ==
    [deploy : DeployModes \cup {Undefined},
     feeMode : FeeModes \cup {Undefined},
     sponsorPolicyHint : CallHints \cup {Undefined},
     onProgress : BOOLEAN]

\* DeployOptions and ExecuteOptions: fee mode and policy hint overrides
FeeOptionSet ==
    [deploy : {Undefined},
     feeMode : FeeModes \cup {Undefined},
     sponsorPolicyHint : CallHints \cup {Undefined},
     onProgress : {FALSE}]

Pending == [status |-> "pending", error |-> Err(Undefined), value |-> Undefined]

\* PreflightOptions: kind, calls (omitted calls are the empty list) and a
\* fee mode override
PreflightOptionSet ==
    [deploy : {Undefined},
     feeMode : FeeModes \cup {Undefined},
     sponsorPolicyHint : {Undefined},
     onProgress : {FALSE}]

Idle ==
    [op |-> "idle", pc |-> "idle", options |-> NoOptions, calls |-> <<>>,
     kind |-> Undefined, feeMode |-> Undefined, policyHint |-> Undefined, deployed |-> FALSE,
     trace |-> <<>>, result |-> Pending]

\* the invocation rejects with e
Throw(r, e) ==
    [r EXCEPT !.pc = "done",
              !.result = [status |-> "thrown", error |-> e, value |-> Undefined]]

\* the invocation resolves with v
Return(r, v) ==
    [r EXCEPT !.pc = "done",
              !.result = [status |-> "returned", error |-> Err(Undefined), value |-> v]]

Emit(r, events) == [r EXCEPT !.trace = @ \o events]

\* a ?? b
Coalesce(a, b) == IF a = Undefined THEN b ELSE a

\* mutant: the per-call override is ignored
EffectiveFeeMode_DefaultOnly(override, defaultFeeMode) == defaultFeeMode

\* options.feeMode ?? this.defaultFeeMode
EffectiveFeeMode(override, defaultFeeMode) == Coalesce(override, defaultFeeMode)

\* mutant: the wallet's default hint is never used
EffectivePolicyHint_CallOnly(override, defaultPolicyHint) == override

\* options.sponsorPolicyHint ?? this.defaultPolicyHint
EffectivePolicyHint(override, defaultPolicyHint) == Coalesce(override, defaultPolicyHint)

\* mutant: any answer of the query counts as deployed
IsDeployedValue_AnyAnswer(resolved, classHash) == resolved

\* isDeployed: !!classHash when the query resolves, false when it rejects
IsDeployedValue(resolved, classHash) == resolved /\ IsTruthy(classHash)

\* mutant: the deploy mode is not consulted when the account is deployed
SkipsDeployment_IgnoresAlways(deployed, deploy) == deployed

\* if (deployed && deploy !== "always")
SkipsDeployment(deployed, deploy) == deployed /\ deploy # "always"

\* mutant: an undeployed account is refused in every mode
DeployForbidden_AnyMode(deployed, deploy) == ~deployed

\* mutant: the "never" mode is not enforced
DeployForbidden_Never(deployed, deploy) == FALSE

\* if (!deployed && deploy === "never")
DeployForbidden(deployed, deploy) == ~deployed /\ deploy = "never"

\* mutant: the failure of the callback is passed through as it is
SponsorshipRejected_Raw(e) == e

\* the error requestSponsorship throws for a failure e of the callback
SponsorshipRejected(e) ==
    Err(SponsorshipRejectedPrefix \o (IF e.isError THEN e.message ELSE UnknownError))

\* buildFeeOptions: the details object built from a sponsorship response
BuildFeeOptions(sponsorship) ==
    LET copied == {f \in ResponseFields :
                     IF f = "tip" THEN sponsorship[f] # Undefined
                     ELSE IsTruthy(sponsorship[f])}
    IN  [f \in copied |-> sponsorship[f]]

\* { classHash, constructorCalldata, addressSalt: publicKey }
DeployPayload ==
    [classHash |-> "accountClassHash", constructorCalldata |-> "calldata(publicKey)",
     addressSalt |-> "publicKey"]

\* { ...a, ...b }
Spread(a, b) == b @@ a

\* mutant: the request does not carry the calls
RequestSponsorship_NoCalls(r, calls, policyHint) ==
    IF ~wallet.sponsor
    THEN Throw(r, Err(ErrSponsorNotConfigured))
    ELSE [Emit(r, <<Ev("getSponsorship",
                       [calls |-> <<>>, callerAddress |-> wallet.address,
                        chainId |-> wallet.chainId, policyHint |-> policyHint])>>)
          EXCEPT !.pc = "awaitSponsor"]

\* mutant: the sponsor configuration is not re-checked at call time
RequestSponsorship_Unguarded(r, calls, policyHint) ==
    [Emit(r, <<Ev("getSponsorship",
                  [calls |-> calls, callerAddress |-> wallet.address,
                   chainId |-> wallet.chainId, policyHint |-> policyHint])>>)
     EXCEPT !.pc = "awaitSponsor"]

\* requestSponsorship up to its await
RequestSponsorship(r, calls, policyHint) ==
    IF ~wallet.sponsor
    THEN Throw(r, Err(ErrSponsorNotConfigured))
    ELSE [Emit(r, <<Ev("getSponsorship",
                       [calls |-> calls, callerAddress |-> wallet.address,
                        chainId |-> wallet.chainId, policyHint |-> policyHint])>>)
          EXCEPT !.pc = "awaitSponsor"]

\* deploy up to its first await (the "deploy" event marks the call of deploy)
DeployBegin(r, options) ==
    [Emit(r, <<Ev("deploy", [options |-> options]),
               Ev("getPublicKey", [none |-> TRUE])>>)
     EXCEPT !.feeMode = EffectiveFeeMode(options.feeMode, wallet.defaultFeeMode),
            !.policyHint = EffectivePolicyHint(options.sponsorPolicyHint,
                                               wallet.defaultPolicyHint),
            !.pc = "awaitPublicKey"]

\* mutant: deploy never asks the sponsor
DeployContinue_AlwaysUserPays(r) ==
    [Emit(r, <<Ev("deployAccount", DeployPayload)>>)
     EXCEPT !.pc = "awaitDeployAccount"]

\* deploy from the public key to its next await
DeployContinue(r) ==
    IF r.feeMode = "sponsored"
    THEN RequestSponsorship(r, <<>>, r.policyHint)
    ELSE [Emit(r, <<Ev("deployAccount", DeployPayload)>>)
          EXCEPT !.pc = "awaitDeployAccount"]

\* ensureReady from the answer of isDeployed to its next await
\* mutant: an invocation does not deploy while another one is deploying
EnsureReadyDecide_Deduplicated(r, deployed) ==
    LET deploy == WithDefault(r.options.deploy, "if_needed")
        d == [r EXCEPT !.deployed = deployed]
        underWay == \E j \in Invocations : Count(inv[j].trace, "deploy") > 0
    IN  IF SkipsDeployment(deployed, deploy) \/ underWay
        THEN Return(Emit(d, Progress(r.options, "READY")), Undefined)
        ELSE IF DeployForbidden(deployed, deploy)
        THEN Throw(d, Err(ErrDeployNever))
        ELSE DeployBegin(Emit(d, Progress(r.options, "DEPLOYING")), r.options)

EnsureReadyDecide(r, deployed) ==
    LET deploy == WithDefault(r.options.deploy, "if_needed")
        d == [r EXCEPT !.deployed = deployed]
    IN  IF SkipsDeployment(deployed, deploy)
        THEN Return(Emit(d, Progress(r.options, "READY")), Undefined)
        ELSE IF DeployForbidden(deployed, deploy)
        THEN Throw(d, Err(ErrDeployNever))
        ELSE DeployBegin(Emit(d, Progress(r.options, "DEPLOYING")), r.options)

\* mutant: READY is reported as soon as the deploy transaction is submitted
WaitBegin_ReadyBeforeWait(r) ==
    [Emit(r, Progress(r.options, "READY")
             \o <<Ev("wait", [successStates |-> {ACCEPTED_ON_L2, ACCEPTED_ON_L1}])>>)
     EXCEPT !.pc = "awaitWait"]

\* ensureReady's call of tx.wait
WaitBegin(r) ==
    [Emit(r, <<Ev("wait", [successStates |-> {ACCEPTED_ON_L2, ACCEPTED_ON_L1}])>>)
     EXCEPT !.pc = "awaitWait"]

\* ensureReady after the wait resolved
EnsureReadyFinish(r) == Return(Emit(r, Progress(r.options, "READY")), Undefined)

\* what the caller of isDeployed gets
BoolValue(b) == IF b THEN "true" ELSE "false"

\* PreflightResult
PreflightOk == [ok |-> TRUE]

PreflightFailed(reason) == [ok |-> FALSE, reason |-> reason]

ReasonNotDeployed == "Account not deployed"

ReasonNoSponsor == "Sponsor not configured"

ReasonSimulationFailed == "Simulation failed"

\* mutant: every kind needs a deployed account
PreflightNeedsDeployment_AnyKind(deployed, kind) == ~deployed

\* if (!deployed && kind !== "execute")
PreflightNeedsDeployment(deployed, kind) == ~deployed /\ kind # "execute"

\* mutant: the sponsor configuration is not looked at
PreflightSponsorMissing_Never(feeMode, sponsor) == FALSE

\* if (feeMode === "sponsored") { if (!this.sponsor) ...
PreflightSponsorMissing(feeMode, sponsor) == feeMode = "sponsored" /\ ~sponsor

\* mutant: preflight obtains sponsorship when a sponsor is configured
PreflightDecide_AsksSponsor(r, deployed) ==
    LET d == [r EXCEPT !.deployed = deployed]
    IN  IF PreflightNeedsDeployment(deployed, r.kind)
        THEN Return(d, PreflightFailed(ReasonNotDeployed))
        ELSE IF PreflightSponsorMissing(r.feeMode, wallet.sponsor)
        THEN Return(d, PreflightFailed(ReasonNoSponsor))
        ELSE IF r.feeMode = "sponsored"
        THEN RequestSponsorship(d, r.calls, Undefined)
        ELSE IF Len(r.calls) > 0
        THEN [Emit(d, <<Ev("simulateTransaction",
                           [type |-> "INVOKE", payload |-> r.calls])>>)
              EXCEPT !.pc = "awaitSimulate"]
        ELSE Return(d, PreflightOk)

\* preflight from the answer of isDeployed to its next await
PreflightDecide(r, deployed) ==
    LET d == [r EXCEPT !.deployed = deployed]
    IN  IF PreflightNeedsDeployment(deployed, r.kind)
        THEN Return(d, PreflightFailed(ReasonNotDeployed))
        ELSE IF PreflightSponsorMissing(r.feeMode, wallet.sponsor)
        THEN Return(d, PreflightFailed(ReasonNoSponsor))
        ELSE IF Len(r.calls) > 0
        THEN [Emit(d, <<Ev("simulateTransaction",
                           [type |-> "INVOKE", payload |-> r.calls])>>)
              EXCEPT !.pc = "awaitSimulate"]
        ELSE Return(d, PreflightOk)

\* mutant: a revert of the simulation is not looked at
PreflightVerdict_IgnoresRevert(sim) == PreflightOk

\* preflight's reading of the simulation
PreflightVerdict(sim) ==
    IF /\ sim.shape # "empty"
       /\ sim.shape # "noTrace"
       /\ sim.shape # "noInvocation"
       /\ sim.shape = "reverted"
    THEN PreflightFailed(Coalesce(sim.revertReason, ReasonSimulationFailed))
    ELSE PreflightOk

\* mutant: the message of the caught error is dropped
PreflightCaught_AlwaysUnknown(e) == PreflightFailed(UnknownError)

\* the result preflight's catch builds from what was thrown
PreflightCaught(e) == PreflightFailed(IF e.isError THEN e.message ELSE UnknownError)

\* mutant: preflight has no catch
PreflightCatch_Rethrows(r, e) == Throw(r, e)

\* preflight's catch
PreflightCatch(r, e) == Return(r, PreflightCaught(e))

\* the code after `await this.provider.getClassHashAt(...)` settled
AfterClassHash(r, deployed) ==
    IF r.op = "ensureReady"
    THEN EnsureReadyDecide(r, deployed)
    ELSE IF r.op = "preflight"
    THEN PreflightDecide(r, deployed)
    ELSE Return([r EXCEPT !.deployed = deployed], BoolValue(deployed))

Starts(i) == wallet.exists /\ inv[i].op = "idle"

IsDeployedCall(i) ==
    /\ Starts(i)
    /\ inv' = [inv EXCEPT ![i] =
          [Idle EXCEPT !.op = "isDeployed", !.pc = "awaitClassHash",
                       !.trace = <<Ev("getClassHashAt", [address |-> wallet.address])>>]]
    /\ UNCHANGED <<creation, wallet, calc>>

EnsureReadyCall(i, options) ==
    /\ Starts(i)
    /\ inv' = [inv EXCEPT ![i] =
          [Idle EXCEPT !.op = "ensureReady", !.options = options,
                       !.pc = "awaitClassHash",
                       !.trace = Progress(options, "CONNECTED")
                                 \o Progress(options, "CHECK_DEPLOYED")
                                 \o <<Ev("getClassHashAt", [address |-> wallet.address])>>]]
    /\ UNCHANGED <<creation, wallet, calc>>

DeployCall(i, options) ==
    /\ Starts(i)
    /\ inv' = [inv EXCEPT ![i] =
          DeployBegin([Idle EXCEPT !.op = "deploy", !.options = options], options)]
    /\ UNCHANGED <<creation, wallet, calc>>

ExecuteCall(i, calls, options) ==
    /\ Starts(i)
    /\ LET r == [Idle EXCEPT !.op = "execute", !.options = options, !.calls = calls,
                             !.feeMode = EffectiveFeeMode(options.feeMode,
                                                          wallet.defaultFeeMode),
                             !.policyHint = EffectivePolicyHint(options.sponsorPolicyHint,
                                                                wallet.defaultPolicyHint)]
       IN  inv' = [inv EXCEPT ![i] =
             IF r.feeMode = "sponsored"
             THEN RequestSponsorship(r, calls, r.policyHint)
             ELSE [Emit(r, <<Ev("execute", [calls |-> calls, hasDetails |-> FALSE,
                                            details |-> <<>>])>>)
                   EXCEPT !.pc = "awaitExecute"]]
    /\ UNCHANGED <<creation, wallet, calc>>

\* preflight up to its first await, the class-hash query of isDeployed
PreflightCall(i, kind, calls, options) ==
    /\ Starts(i)
    /\ inv' = [inv EXCEPT ![i] =
          [Idle EXCEPT !.op = "preflight", !.options = options, !.kind = kind,
                       !.calls = calls,
                       !.feeMode = EffectiveFeeMode(options.feeMode, wallet.defaultFeeMode),
                       !.pc = "awaitClassHash",
                       !.trace = <<Ev("getClassHashAt", [address |-> wallet.address])>>]]
    /\ UNCHANGED <<creation, wallet, calc>>

\* account.simulateTransaction resolves
SimulateResolves(i, sim) ==
    /\ inv[i].pc = "awaitSimulate"
    /\ inv' = [inv EXCEPT ![i] =
          Return(Emit(@, <<Ev("simulateTransaction:resolved", [simulation |-> sim])>>),
                 PreflightVerdict(sim))]
    /\ UNCHANGED <<creation, wallet, calc>>

\* account.simulateTransaction rejects: preflight's catch
SimulateRejects(i, e) ==
    /\ inv[i].pc = "awaitSimulate"
    /\ inv' = [inv EXCEPT ![i] =
          PreflightCatch(Emit(@, <<Ev("simulateTransaction:rejected", [error |-> e])>>), e)]
    /\ UNCHANGED <<creation, wallet, calc>>

\* provider.getClassHashAt resolves
ClassHashResolves(i, classHash) ==
    /\ inv[i].pc = "awaitClassHash"
    /\ inv' = [inv EXCEPT ![i] =
          AfterClassHash(
              Emit(@, <<Ev("getClassHashAt:resolved", [value |-> classHash])>>),
              IsDeployedValue(TRUE, classHash))]
    /\ UNCHANGED <<creation, wallet, calc>>

\* provider.getClassHashAt rejects
ClassHashRejects(i, e) ==
    /\ inv[i].pc = "awaitClassHash"
    /\ inv' = [inv EXCEPT ![i] =
          AfterClassHash(
              Emit(@, <<Ev("getClassHashAt:rejected", [error |-> e])>>),
              IsDeployedValue(FALSE, Undefined))]
    /\ UNCHANGED <<creation, wallet, calc>>

\* accountProvider.getPublicKey resolves
PublicKeyResolves(i) ==
    /\ inv[i].pc = "awaitPublicKey"
    /\ inv' = [inv EXCEPT ![i] = DeployContinue(@)]
    /\ UNCHANGED <<creation, wallet, calc>>

\* mutant: the calls to submit are kept in one place for all invocations
\* and overwritten by whichever execute started last
SponsorResolves_SharedCalls(i, sponsorship) ==
    /\ inv[i].pc = "awaitSponsor"
    /\ LET r == Emit(inv[i], <<Ev("getSponsorship:resolved",
                                  [response |-> sponsorship])>>)
           shared == IF \E j \in Invocations : j > i /\ inv[j].op = "execute"
                     THEN inv[CHOOSE j \in Invocations : j > i /\ inv[j].op = "execute"].calls
                     ELSE r.calls
       IN  inv' = [inv EXCEPT ![i] =
             IF r.op = "execute"
             THEN [Emit(r, <<Ev("execute",
                                [calls |-> shared, hasDetails |-> TRUE,
                                 details |-> BuildFeeOptions(sponsorship)])>>)
                   EXCEPT !.pc = "awaitExecute"]
             ELSE [Emit(r, <<Ev("deployAccount",
                                Spread(DeployPayload, BuildFeeOptions(sponsorship)))>>)
                   EXCEPT !.pc = "awaitDeployAccount"]]
    /\ UNCHANGED <<creation, wallet, calc>>

\* the sponsor callback resolves: the sponsored submission is made
SponsorResolves(i, sponsorship) ==
    /\ inv[i].pc = "awaitSponsor"
    /\ LET r == Emit(inv[i], <<Ev("getSponsorship:resolved",
                                  [response |-> sponsorship])>>)
       IN  inv' = [inv EXCEPT ![i] =
             IF r.op = "execute"
             THEN [Emit(r, <<Ev("execute",
                                [calls |-> r.calls, hasDetails |-> TRUE,
                                 details |-> BuildFeeOptions(sponsorship)])>>)
                   EXCEPT !.pc = "awaitExecute"]
             ELSE [Emit(r, <<Ev("deployAccount",
                                Spread(DeployPayload, BuildFeeOptions(sponsorship)))>>)
                   EXCEPT !.pc = "awaitDeployAccount"]]
    /\ UNCHANGED <<creation, wallet, calc>>

\* the sponsor callback rejects or throws
SponsorRejects(i, e) ==
    /\ inv[i].pc = "awaitSponsor"
    /\ inv' = [inv EXCEPT ![i] =
          Throw(Emit(@, <<Ev("getSponsorship:rejected", [error |-> e])>>),
                SponsorshipRejected(e))]
    /\ UNCHANGED <<creation, wallet, calc>>

\* account.deployAccount resolves: deploy returns a Tx
DeployAccountResolves(i, hash) ==
    /\ inv[i].pc = "awaitDeployAccount"
    /\ LET r == Emit(inv[i], <<Ev("deployAccount:resolved", [hash |-> hash])>>)
       IN  inv' = [inv EXCEPT ![i] =
             IF r.op = "ensureReady" THEN WaitBegin(r) ELSE Return(r, hash)]
    /\ UNCHANGED <<creation, wallet, calc>>

DeployAccountRejects(i, e) ==
    /\ inv[i].pc = "awaitDeployAccount"
    /\ inv' = [inv EXCEPT ![i] =
          Throw(Emit(@, <<Ev("deployAccount:rejected", [error |-> e])>>), e)]
    /\ UNCHANGED <<creation, wallet, calc>>

\* account.execute resolves: execute returns a Tx
ExecuteResolves(i, hash) ==
    /\ inv[i].pc = "awaitExecute"
    /\ inv' = [inv EXCEPT ![i] =
          Return(Emit(@, <<Ev("execute:resolved", [hash |-> hash])>>), hash)]
    /\ UNCHANGED <<creation, wallet, calc>>

ExecuteRejects(i, e) ==
    /\ inv[i].pc = "awaitExecute"
    /\ inv' = [inv EXCEPT ![i] =
          Throw(Emit(@, <<Ev("execute:rejected", [error |-> e])>>), e)]
    /\ UNCHANGED <<creation, wallet, calc>>

\* tx.wait resolves: the transaction reached one of the success states
WaitResolves(i) ==
    /\ inv[i].pc = "awaitWait"
    /\ inv' = [inv EXCEPT ![i] =
          EnsureReadyFinish(Emit(@, <<Ev("wait:resolved", [none |-> TRUE])>>))]
    /\ UNCHANGED <<creation, wallet, calc>>

WaitRejects(i, e) ==
    /\ inv[i].pc = "awaitWait"
    /\ inv' = [inv EXCEPT ![i] =
          Throw(Emit(@, <<Ev("wait:rejected", [error |-> e])>>), e)]
    /\ UNCHANGED <<creation, wallet, calc>>

\* the caller has its answer; the next operation may start
Finish(i) ==
    /\ inv[i].pc = "done"
    /\ inv' = [inv EXCEPT ![i] = Idle]
    /\ UNCHANGED <<creation, wallet, calc>>

(***************************************************************************)
(* Specification                                                           *)
(***************************************************************************)
(***************************************************************************)
(* Amount: a base value (bigint), its decimals and an optional symbol.     *)
(* Text is a sequence of characters; an AmountInput is a string, a bigint  *)
(* or a number (here: a non-negative safe integer).                        *)
(***************************************************************************)
Digits == <<"0", "1", "2", "3", "4", "5", "6", "7", "8", "9">>

IsDigit(c) == \E k \in 1..Len(Digits) : Digits[k] = c

DigitValue(c) == (CHOOSE k \in 1..Len(Digits) : Digits[k] = c) - 1

\* the characters the texts are made of
Alphabet == {"0", "1", "5", ".", "-", "e"}

Texts == SeqsUpTo(Alphabet, MaxLen)

Symbols == {"ETH", "STRK", Undefined}

AmountInputs ==
    [type : {"string"}, text : Texts]
    \cup [type : {"bigint", "number"}, value : 0..MaxBase]

\* outcomes of a synchronous call
NotCalled == [status |-> "none"]

Returns(v) == [status |-> "returned", value |-> v]

Throws(e) == [status |-> "thrown", error |-> e]

\* the text as one string, for messages
RECURSIVE Joined(_)
Joined(text) == IF text = <<>> THEN "" ELSE Head(text) \o Joined(Tail(text))

\* bigint.toString() of a non-negative value
RECURSIVE NatToString(_)
NatToString(n) ==
    IF n < 10 THEN <<Digits[n + 1]>>
    ELSE NatToString(n \div 10) \o <<Digits[(n % 10) + 1]>>

\* bigint.toString(), and number.toString() of a safe integer
BigIntToString(n) == IF n < 0 THEN <<"-">> \o NatToString(0 - n) ELSE NatToString(n)

\* amount.toString()
InputToString(x) == IF x.type = "string" THEN x.text ELSE BigIntToString(x.value)

AllDigits(text) == \A k \in 1..Len(text) : IsDigit(text[k])

\* the value of a digit string
RECURSIVE DigitsValue(_)
DigitsValue(text) ==
    IF text = <<>> THEN 0
    ELSE DigitsValue(SubSeq(text, 1, Len(text) - 1)) * 10 + DigitValue(text[Len(text)])

\* BigInt(string): the empty text is 0n, an optionally signed digit string
\* is its value, anything else is a SyntaxError
StringToBigInt(text) ==
    IF text = <<>> THEN Returns(0)
    ELSE IF AllDigits(text) THEN Returns(DigitsValue(text))
    ELSE IF Head(text) = "-" /\ Len(text) > 1 /\ AllDigits(Tail(text))
    THEN Returns(0 - DigitsValue(Tail(text)))
    ELSE Throws(Err("Cannot convert " \o Joined(text) \o " to a BigInt"))

\* BigInt(amount)
ToBigInt(x) == IF x.type = "string" THEN StringToBigInt(x.text) ELSE Returns(x.value)

\* amountStr.match(/^\d+(\.\d+)?$/)
MatchesUnit(text) ==
    \/ Len(text) > 0 /\ AllDigits(text)
    \/ \E k \in 2..(Len(text) - 1) :
          /\ text[k] = "."
          /\ AllDigits(SubSeq(text, 1, k - 1))
          /\ AllDigits(SubSeq(text, k + 1, Len(text)))

\* the position of the first "." at or after position from, 0 if none
RECURSIVE DotFrom(_, _)
DotFrom(text, from) ==
    IF from > Len(text) THEN 0
    ELSE IF text[from] = "." THEN from
    ELSE DotFrom(text, from + 1)

\* const [integer, fraction = ""] = amountStr.split(".")
SplitInteger(text) ==
    IF DotFrom(text, 1) = 0 THEN text ELSE SubSeq(text, 1, DotFrom(text, 1) - 1)

SplitFraction(text) ==
    LET first == DotFrom(text, 1)
        second == DotFrom(text, first + 1)
    IN  IF first = 0 THEN <<>>
        ELSE IF second = 0 THEN SubSeq(text, first + 1, Len(text))
        ELSE SubSeq(text, first + 1, second - 1)

\* mutant: nothing is padded
PadEnd_None(text, n) == text

\* text.padEnd(n, "0")
RECURSIVE PadEnd(_, _)
PadEnd(text, n) == IF Len(text) >= n THEN text ELSE PadEnd(text \o <<"0">>, n)

\* text.padStart(n, "0")
RECURSIVE PadStart(_, _)
PadStart(text, n) == IF Len(text) >= n THEN text ELSE PadStart(<<"0">> \o text, n)

\* mutant: trailing zeros are kept
StripTrailingZeros_Keep(text) == text

\* text.replace(/0+$/, "")
RECURSIVE StripTrailingZeros(_)
StripTrailingZeros(text) ==
    IF text # <<>> /\ text[Len(text)] = "0"
    THEN StripTrailingZeros(SubSeq(text, 1, Len(text) - 1))
    ELSE text

\* new Amount(value, decimals, symbol)
NewAmount(value, decimals, symbol) ==
    [baseValue |-> value, decimals |-> decimals, symbol |-> symbol]

ErrInvalidUnit(text) ==
    Err("Invalid unit amount: \"" \o Joined(text) \o "\". Must be a positive number.")

ErrPrecision(text, decimals) ==
    Err("Precision overflow: \"" \o Joined(text) \o "\" exceeds "
        \o Joined(BigIntToString(decimals)) \o " decimal places.")

\* Amount.fromUnit
FromUnit(amount, decimals, symbol) ==
    LET amountStr == InputToString(amount)
        integer == SplitInteger(amountStr)
        fraction == SplitFraction(amountStr)
        paddedFraction == PadEnd(fraction, decimals)
    IN  IF ~MatchesUnit(amountStr) THEN Throws(ErrInvalidUnit(amountStr))
        ELSE IF Len(fraction) > decimals THEN Throws(ErrPrecision(amountStr, decimals))
        ELSE LET baseValue == StringToBigInt(integer \o paddedFraction)
             IN  IF baseValue.status = "thrown" THEN baseValue
                 ELSE Returns(NewAmount(baseValue.value, decimals, symbol))

\* mutant: the input is taken as whole units
FromBase_Scaled(amount, decimals, symbol) == FromUnit(amount, decimals, symbol)

\* Amount.fromBase
FromBase(amount, decimals, symbol) ==
    LET baseValue == ToBigInt(amount)
    IN  IF baseValue.status = "thrown" THEN baseValue
        ELSE Returns(NewAmount(baseValue.value, decimals, symbol))

\* Amount.toBase
ToBase(a) == a.baseValue

\* text.slice(0, -n) and text.slice(-n), for 0 < n <= Len(text)
SliceHead(text, n) == SubSeq(text, 1, Len(text) - n)

SliceTail(text, n) == SubSeq(text, Len(text) - n + 1, Len(text))

\* Amount.toUnit
ToUnit(a) ==
    IF a.decimals = 0 THEN BigIntToString(a.baseValue)
    ELSE LET valueStr == BigIntToString(a.baseValue)
             padded == PadStart(valueStr, a.decimals + 1)
             integer == SliceHead(padded, a.decimals)
             fraction == SliceTail(padded, a.decimals)
             cleanFraction == StripTrailingZeros(fraction)
         IN  IF cleanFraction # <<>> THEN integer \o <<".">> \o cleanFraction ELSE integer

\* a computation on Amounts: the arguments of the factory, which factory
\* was called and with what outcome, and what toUnit and toBase returned
NoCalc == [made |-> "none"]

Calculation(input, decimals, symbol) ==
    [input |-> input, decimals |-> decimals, symbol |-> symbol, made |-> "none",
     amount |-> NotCalled, unit |-> NotCalled, base |-> NotCalled]

IsCalculation == "input" \in DOMAIN calc

FromUnitCall ==
    /\ IsCalculation
    /\ calc.made = "none"
    /\ calc' = [calc EXCEPT !.made = "fromUnit",
                            !.amount = FromUnit(calc.input, calc.decimals, calc.symbol)]
    /\ UNCHANGED <<creation, wallet, inv>>

FromBaseCall ==
    /\ IsCalculation
    /\ calc.made = "none"
    /\ calc' = [calc EXCEPT !.made = "fromBase",
                            !.amount = FromBase(calc.input, calc.decimals, calc.symbol)]
    /\ UNCHANGED <<creation, wallet, inv>>

ToUnitCall ==
    /\ IsCalculation
    /\ calc.amount.status = "returned"
    /\ calc.unit = NotCalled
    /\ calc' = [calc EXCEPT !.unit = Returns(ToUnit(calc.amount.value))]
    /\ UNCHANGED <<creation, wallet, inv>>

ToBaseCall ==
    /\ IsCalculation
    /\ calc.amount.status = "returned"
    /\ calc.base = NotCalled
    /\ calc' = [calc EXCEPT !.base = Returns(ToBase(calc.amount.value))]
    /\ UNCHANGED <<creation, wallet, inv>>

(***************************************************************************)
(* Amount: compatibility and comparisons                                   *)
(***************************************************************************)
\* the amounts given to comparisons and arithmetic
Operands == [baseValue : 0..MaxOperand, decimals : 0..MaxDecimals, symbol : Symbols]

\* mutant: only the receiver's symbol decides
IsCompatible_ReceiverSymbol(this, other) ==
    /\ this.decimals = other.decimals
    /\ this.symbol = Undefined \/ this.symbol = other.symbol

\* Amount.isCompatible
IsCompatible(this, other) ==
    IF this.decimals # other.decimals THEN FALSE
    ELSE IF /\ this.symbol # Undefined
            /\ other.symbol # Undefined
            /\ this.symbol # other.symbol
    THEN FALSE
    ELSE TRUE

\* Amount.eq
Eq(this, other) == IF ~IsCompatible(this, other) THEN FALSE ELSE this.baseValue = other.baseValue

\* Amount.gt
Gt(this, other) == IF ~IsCompatible(this, other) THEN FALSE ELSE this.baseValue > other.baseValue

\* mutant: gte is the negation of lt
Gte_NotLt(this, other) ==
    ~(IF ~IsCompatible(this, other) THEN FALSE ELSE this.baseValue < other.baseValue)

\* Amount.gte
Gte(this, other) == IF ~IsCompatible(this, other) THEN FALSE ELSE this.baseValue >= other.baseValue

\* Amount.lt
Lt(this, other) == IF ~IsCompatible(this, other) THEN FALSE ELSE this.baseValue < other.baseValue

\* Amount.lte
Lte(this, other) == IF ~IsCompatible(this, other) THEN FALSE ELSE this.baseValue <= other.baseValue

\* a comparison of two amounts, called on either of them with the other as
\* its argument
Comparison(this, other) ==
    [this |-> this, other |-> other, method |-> "none",
     forward |-> NotCalled, backward |-> NotCalled]

IsComparison == "forward" \in DOMAIN calc

Compared(method, forward, backward) ==
    /\ IsComparison
    /\ calc.method = "none"
    /\ calc' = [calc EXCEPT !.method = method,
                            !.forward = Returns(forward),
                            !.backward = Returns(backward)]
    /\ UNCHANGED <<creation, wallet, inv>>

EqCall == Compared("eq", Eq(calc.this, calc.other), Eq(calc.other, calc.this))

GtCall == Compared("gt", Gt(calc.this, calc.other), Gt(calc.other, calc.this))

GteCall == Compared("gte", Gte(calc.this, calc.other), Gte(calc.other, calc.this))

LtCall == Compared("lt", Lt(calc.this, calc.other), Lt(calc.other, calc.this))

LteCall == Compared("lte", Lte(calc.this, calc.other), Lte(calc.other, calc.this))

(***************************************************************************)
(* Amount: arithmetic                                                      *)
(***************************************************************************)
NoError == [none |-> TRUE]

ErrDecimals(this, other) ==
    Err("Cannot perform arithmetic on amounts with different decimals: "
        \o Joined(BigIntToString(this.decimals)) \o " vs "
        \o Joined(BigIntToString(other.decimals)))

ErrSymbols(this, other) ==
    Err("Cannot perform arithmetic on amounts with different symbols: \""
        \o this.symbol \o "\" vs \"" \o other.symbol \o "\"")

\* mutant: symbols are not looked at
AssertCompatible_DecimalsOnly(this, other) ==
    IF this.decimals # other.decimals THEN ErrDecimals(this, other) ELSE NoError

\* Amount.assertCompatible: what it throws, if anything
AssertCompatible(this, other) ==
    IF this.decimals # other.decimals THEN ErrDecimals(this, other)
    ELSE IF /\ this.symbol # Undefined
            /\ other.symbol # Undefined
            /\ this.symbol # other.symbol
    THEN ErrSymbols(this, other)
    ELSE NoError

\* Amount.add
Add(this, other) ==
    IF AssertCompatible(this, other) # NoError THEN Throws(AssertCompatible(this, other))
    ELSE Returns(NewAmount(this.baseValue + other.baseValue, this.decimals,
                           Coalesce(this.symbol, other.symbol)))

\* Amount.subtract
Subtract(this, other) ==
    IF AssertCompatible(this, other) # NoError THEN Throws(AssertCompatible(this, other))
    ELSE Returns(NewAmount(this.baseValue - other.baseValue, this.decimals,
                           Coalesce(this.symbol, other.symbol)))

\* const PRECISION = 18
PRECISION == 18

\* bigints too large for the model's integers are kept as their decimal
\* digits, most significant first, without leading zeros
RECURSIVE BigNorm(_)
BigNorm(digits) ==
    IF Len(digits) > 1 /\ Head(digits) = "0" THEN BigNorm(Tail(digits))
    ELSE IF digits = <<>> THEN <<"0">>
    ELSE digits

\* digits * n + carry
RECURSIVE BigTimesNat(_, _, _)
BigTimesNat(digits, n, carry) ==
    IF digits = <<>> THEN (IF carry = 0 THEN <<>> ELSE NatToString(carry))
    ELSE LET p == DigitValue(digits[Len(digits)]) * n + carry
         IN  BigTimesNat(SubSeq(digits, 1, Len(digits) - 1), n, p \div 10)
             \o <<Digits[(p % 10) + 1]>>

\* x <= y, for digits of equal length
RECURSIVE DigitsLeq(_, _)
DigitsLeq(x, y) ==
    IF x = <<>> THEN TRUE
    ELSE IF Head(x) # Head(y) THEN DigitValue(Head(x)) < DigitValue(Head(y))
    ELSE DigitsLeq(Tail(x), Tail(y))

\* x <= y
BigLeq(x, y) ==
    IF Len(x) # Len(y) THEN Len(x) < Len(y) ELSE DigitsLeq(x, y)

\* x - y - borrow digit by digit from the right, for x >= y
RECURSIVE DigitsMinus(_, _, _)
DigitsMinus(x, y, borrow) ==
    IF x = <<>> THEN <<>>
    ELSE LET dx == DigitValue(x[Len(x)])
             dy == IF y = <<>> THEN 0 ELSE DigitValue(y[Len(y)])
             d == dx - dy - borrow
         IN  DigitsMinus(SubSeq(x, 1, Len(x) - 1),
                         IF y = <<>> THEN <<>> ELSE SubSeq(y, 1, Len(y) - 1),
                         IF d < 0 THEN 1 ELSE 0)
             \o <<Digits[(IF d < 0 THEN d + 10 ELSE d) + 1]>>

\* x - y, for x >= y
BigMinus(x, y) == BigNorm(DigitsMinus(x, y, 0))

\* how often y fits into x, for 0 < y and x < 10 * y
RECURSIVE Fits(_, _)
Fits(x, y) == IF BigLeq(y, x) THEN 1 + Fits(BigMinus(x, y), y) ELSE 0

\* what is left of x after taking y as often as it fits
RECURSIVE Rest(_, _)
Rest(x, y) == IF BigLeq(y, x) THEN Rest(BigMinus(x, y), y) ELSE x

\* the quotient of x by y > 0: long division from digit k of x on
RECURSIVE LongDivision(_, _, _, _)
LongDivision(x, y, k, rest) ==
    IF k > Len(x) THEN <<>>
    ELSE LET r == BigNorm(rest \o <<x[k]>>)
         IN  <<Digits[Fits(r, y) + 1]>> \o LongDivision(x, y, k + 1, Rest(r, y))

\* x / y on non-negative bigints
BigDiv(x, y) == BigNorm(LongDivision(x, y, 1, <<"0">>))

RECURSIVE Zeros(_)
Zeros(n) == IF n = 0 THEN <<>> ELSE <<"0">> \o Zeros(n - 1)

\* 10n ** BigInt(PRECISION)
ScaleFactor == <<"1">> \o Zeros(PRECISION)

\* x / scaleFactor
DivScaleFactor(x) ==
    IF Len(x) <= PRECISION THEN <<"0">> ELSE SubSeq(x, 1, Len(x) - PRECISION)

\* x * scaleFactor
TimesScaleFactor(x) == BigNorm(x \o Zeros(PRECISION))

Abs(n) == IF n < 0 THEN 0 - n ELSE n

\* the bigint of the sign of n and the magnitude given (bigint division
\* truncates toward zero)
Signed(n, digits) == IF n < 0 THEN 0 - DigitsValue(digits) ELSE DigitsValue(digits)

\* the scalar as a bigint scaled by 10^PRECISION:
\*   const [integer, fraction = ""] = str.split(".");
\*   BigInt(integer + fraction.padEnd(PRECISION, "0").slice(0, PRECISION))
ScaledScalar(text) ==
    BigNorm(SplitInteger(text)
            \o SubSeq(PadEnd(SplitFraction(text), PRECISION), 1, PRECISION))

ErrInvalidMultiplier(text) ==
    Err("Invalid multiplier: \"" \o Joined(text) \o "\". Must be a positive number.")

ErrInvalidDivisor(text) ==
    Err("Invalid divisor: \"" \o Joined(text) \o "\". Must be a positive number.")

ErrDivisionByZero == Err("Division by zero")

\* mutant: the product is rounded up
Multiply_RoundsUp(this, multiplier) ==
    LET multiplierStr == InputToString(multiplier)
        scaledMultiplier == ScaledScalar(multiplierStr)
        result == DivScaleFactor(
                      BigNorm(BigTimesNat(scaledMultiplier, Abs(this.baseValue), 0)))
    IN  IF ~MatchesUnit(multiplierStr) THEN Throws(ErrInvalidMultiplier(multiplierStr))
        ELSE Returns(NewAmount(Signed(this.baseValue, result) + 1, this.decimals, this.symbol))

\* Amount.multiply
Multiply(this, multiplier) ==
    LET multiplierStr == InputToString(multiplier)
        scaledMultiplier == ScaledScalar(multiplierStr)
        result == DivScaleFactor(
                      BigNorm(BigTimesNat(scaledMultiplier, Abs(this.baseValue), 0)))
    IN  IF ~MatchesUnit(multiplierStr) THEN Throws(ErrInvalidMultiplier(multiplierStr))
        ELSE Returns(NewAmount(Signed(this.baseValue, result), this.decimals, this.symbol))

\* mutant: a zero divisor gives a zero amount
Divide_ZeroForZero(this, divisor) ==
    LET divisorStr == InputToString(divisor)
        scaledDivisor == ScaledScalar(divisorStr)
        scaledBase == TimesScaleFactor(NatToString(Abs(this.baseValue)))
    IN  IF ~MatchesUnit(divisorStr) THEN Throws(ErrInvalidDivisor(divisorStr))
        ELSE IF scaledDivisor = <<"0">>
        THEN Returns(NewAmount(0, this.decimals, this.symbol))
        ELSE Returns(NewAmount(Signed(this.baseValue, BigDiv(scaledBase, scaledDivisor)),
                               this.decimals, this.symbol))

\* Amount.divide
Divide(this, divisor) ==
    LET divisorStr == InputToString(divisor)
        scaledDivisor == ScaledScalar(divisorStr)
        scaledBase == TimesScaleFactor(NatToString(Abs(this.baseValue)))
    IN  IF ~MatchesUnit(divisorStr) THEN Throws(ErrInvalidDivisor(divisorStr))
        ELSE IF scaledDivisor = <<"0">> THEN Throws(ErrDivisionByZero)
        ELSE Returns(NewAmount(Signed(this.baseValue, BigDiv(scaledBase, scaledDivisor)),
                               this.decimals, this.symbol))

\* the scalars given to multiply and divide: short numerals, two numerals
\* with more than PRECISION fractional digits, texts that are no numerals,
\* and small integers
ScalarTexts ==
    {<<"0">>, <<"2">>, <<"1", "0">>, <<"0", ".", "0">>, <<"0", ".", "5">>,
     <<"2", ".", "5">>, <<"0", ".", "3">>, <<"2", ".", "0">>,
     <<"0", ".">> \o Zeros(PRECISION) \o <<"1">>,
     <<"1", ".">> \o Zeros(PRECISION) \o <<"9">>,
     <<>>, <<"-", "2">>, <<"2", ".">>, <<"1", "e", "2">>}

Scalars ==
    [type : {"string"}, text : ScalarTexts]
    \cup [type : {"bigint", "number"}, value : 0..MaxScalar]

\* a chain of arithmetic calls, each made on the result of the one before:
\* the amount reached, the number of calls made, the last call (its
\* receiver, argument and outcome) and what toUnit returned for the amount
NoCall == [method |-> "none"]

Arithmetic(this) == [this |-> this, steps |-> 0, last |-> NoCall, unit |-> NotCalled]

IsArithmetic == "steps" \in DOMAIN calc

\* the call method(arg) on the amount reached, with its outcome
Applied(method, arg, outcome) ==
    /\ IsArithmetic
    /\ calc.steps < MaxSteps
    /\ calc.unit = NotCalled
    /\ calc' = [calc EXCEPT
          !.this = IF outcome.status = "returned" THEN outcome.value ELSE @,
          !.steps = @ + 1,
          !.last = [method |-> method, this |-> calc.this, arg |-> arg, outcome |-> outcome]]
    /\ UNCHANGED <<creation, wallet, inv>>

AddCall(other) == Applied("add", other, Add(calc.this, other))

SubtractCall(other) == Applied("subtract", other, Subtract(calc.this, other))

MultiplyCall(multiplier) == Applied("multiply", multiplier, Multiply(calc.this, multiplier))

DivideCall(divisor) == Applied("divide", divisor, Divide(calc.this, divisor))

\* a.multiply(k).divide(k): the amount, the scalar, and the outcomes of
\* the two calls
Scaling(this, scalar) ==
    [receiver |-> this, scalar |-> scalar, product |-> NotCalled, quotient |-> NotCalled]

IsScaling == "scalar" \in DOMAIN calc

ProductCall ==
    /\ IsScaling
    /\ calc.product = NotCalled
    /\ calc' = [calc EXCEPT !.product = Multiply(calc.receiver, calc.scalar)]
    /\ UNCHANGED <<creation, wallet, inv>>

QuotientCall ==
    /\ IsScaling
    /\ calc.product.status = "returned"
    /\ calc.quotient = NotCalled
    /\ calc' = [calc EXCEPT !.quotient = Divide(calc.product.value, calc.scalar)]
    /\ UNCHANGED <<creation, wallet, inv>>

\* toUnit on the amount reached
ResultToUnitCall ==
    /\ IsArithmetic
    /\ calc.unit = NotCalled
    /\ calc' = [calc EXCEPT !.unit = Returns(ToUnit(calc.this))]
    /\ UNCHANGED <<creation, wallet, inv>>

(***************************************************************************)
(* The wallet                                                              *)
(***************************************************************************)
Init ==
    /\ creation = NoCreation
    /\ wallet = NoWallet
    /\ inv = [i \in OneCaller |-> Idle]
    /\ calc = NoCalc

Next ==
    \/ \E sponsor \in BOOLEAN, chainId \in ChainIds,
          feeModeArg \in FeeModes \cup {Undefined},
          hintArg \in DefaultHints \cup {Undefined} :
          CreateCall(sponsor, chainId, feeModeArg, hintArg)
    \/ \E address \in Addresses : CreateAddressResolves(address)
    \/ \E e \in AddressFailures : CreateAddressRejects(e)
    \/ \E i \in Invocations :
        \/ IsDeployedCall(i)
        \/ \E options \in EnsureReadyOptionSet : EnsureReadyCall(i, options)
        \/ \E options \in FeeOptionSet : DeployCall(i, options)
        \/ \E calls \in CallLists, options \in FeeOptionSet : ExecuteCall(i, calls, options)
        \/ \E kind \in PreflightKinds, calls \in CallLists, options \in PreflightOptionSet :
              PreflightCall(i, kind, calls, options)
        \/ \E sim \in SimulationResults : SimulateResolves(i, sim)
        \/ \E e \in SimulateFailures : SimulateRejects(i, e)
        \/ \E classHash \in ClassHashValues : ClassHashResolves(i, classHash)
        \/ \E e \in ClassHashFailures : ClassHashRejects(i, e)
        \/ PublicKeyResolves(i)
        \/ \E sponsorship \in SponsorshipResponses : SponsorResolves(i, sponsorship)
        \/ \E e \in SponsorFailures : SponsorRejects(i, e)
        \/ \E hash \in TxHashes : DeployAccountResolves(i, hash)
        \/ \E e \in SubmitFailures : DeployAccountRejects(i, e)
        \/ \E hash \in TxHashes : ExecuteResolves(i, hash)
        \/ \E e \in SubmitFailures : ExecuteRejects(i, e)
        \/ WaitResolves(i)
        \/ \E e \in WaitFailures : WaitRejects(i, e)
        \/ Finish(i)

Spec == Init /\ [][Next]_vars

(***************************************************************************)
(* Amount computations: every input, number of decimals and symbol         *)
(***************************************************************************)
InitAmount ==
    /\ creation = NoCreation
    /\ wallet = NoWallet
    /\ inv = [i \in OneCaller |-> Idle]
    /\ calc \in {Calculation(input, decimals, symbol) :
                    input \in AmountInputs, decimals \in 0..MaxDecimals, symbol \in Symbols}

NextAmount ==
    \/ FromUnitCall
    \/ FromBaseCall
    \/ ToUnitCall
    \/ ToBaseCall

SpecAmount == InitAmount /\ [][NextAmount]_vars

(***************************************************************************)
(* Comparisons: every pair of operands                                     *)
(***************************************************************************)
InitCompare ==
    /\ creation = NoCreation
    /\ wallet = NoWallet
    /\ inv = [i \in OneCaller |-> Idle]
    /\ calc \in {Comparison(this, other) : this \in Operands, other \in Operands}

NextCompare ==
    \/ EqCall
    \/ GtCall
    \/ GteCall
    \/ LtCall
    \/ LteCall

SpecCompare == InitCompare /\ [][NextCompare]_vars

(***************************************************************************)
(* Arithmetic: chains of calls starting from every operand                 *)
(***************************************************************************)
InitArith ==
    /\ creation = NoCreation
    /\ wallet = NoWallet
    /\ inv = [i \in OneCaller |-> Idle]
    /\ calc \in {Arithmetic(this) : this \in Operands}

NextArith ==
    \/ \E other \in Operands : AddCall(other)
    \/ \E other \in Operands : SubtractCall(other)
    \/ \E multiplier \in Scalars : MultiplyCall(multiplier)
    \/ \E divisor \in Scalars : DivideCall(divisor)
    \/ ResultToUnitCall

SpecArith == InitArith /\ [][NextArith]_vars

(***************************************************************************)
(* multiply and divide by the same scalar: every operand and scalar        *)
(***************************************************************************)
InitScaling ==
    /\ creation = NoCreation
    /\ wallet = NoWallet
    /\ inv = [i \in OneCaller |-> Idle]
    /\ calc \in {Scaling(this, scalar) : this \in Operands, scalar \in Scalars}

NextScaling ==
    \/ ProductCall
    \/ QuotientCall

SpecScaling == InitScaling /\ [][NextScaling]_vars

(***************************************************************************)
(* Two callers at once on one wallet: sponsored execute and ensureReady    *)
(* in mode "if_needed", interleaved at every await                         *)
(***************************************************************************)
ConcurrentCalls == {<<"transfer">>, <<"approve">>}

ConcurrentExecuteOptions ==
    {o \in FeeOptionSet : o.feeMode = "sponsored"}

ConcurrentEnsureReadyOptions ==
    {o \in EnsureReadyOptionSet :
        /\ o.deploy = "if_needed"
        /\ o.feeMode = Undefined
        /\ o.sponsorPolicyHint = Undefined
        /\ o.onProgress}

ConcurrentResponses ==
    {s \in SponsorshipResponses :
        /\ s.resourceBounds = "bounds"
        /\ s.paymasterData = Undefined
        /\ s.accountDeploymentData = Undefined
        /\ s.signature = Undefined}

InitConcurrent ==
    /\ creation = NoCreation
    /\ wallet = NoWallet
    /\ inv = [i \in TwoCallers |-> Idle]
    /\ calc = NoCalc

NextConcurrent ==
    \/ \E chainId \in ChainIds, feeModeArg \in FeeModes, hintArg \in DefaultHints :
          CreateCall(TRUE, chainId, feeModeArg, hintArg)
    \/ \E address \in Addresses : CreateAddressResolves(address)
    \/ \E e \in AddressFailures : CreateAddressRejects(e)
    \/ \E i \in Invocations :
        \/ \E options \in ConcurrentEnsureReadyOptions : EnsureReadyCall(i, options)
        \/ \E calls \in ConcurrentCalls, options \in ConcurrentExecuteOptions :
              ExecuteCall(i, calls, options)
        \/ \E classHash \in ClassHashValues : ClassHashResolves(i, classHash)
        \/ \E e \in ClassHashFailures : ClassHashRejects(i, e)
        \/ PublicKeyResolves(i)
        \/ \E sponsorship \in ConcurrentResponses : SponsorResolves(i, sponsorship)
        \/ \E e \in SponsorFailures : SponsorRejects(i, e)
        \/ \E hash \in TxHashes : DeployAccountResolves(i, hash)
        \/ \E e \in SubmitFailures : DeployAccountRejects(i, e)
        \/ \E hash \in TxHashes : ExecuteResolves(i, hash)
        \/ \E e \in SubmitFailures : ExecuteRejects(i, e)
        \/ WaitResolves(i)
        \/ \E e \in WaitFailures : WaitRejects(i, e)
        \/ Finish(i)

SpecConcurrent == InitConcurrent /\ [][NextConcurrent]_vars

(***************************************************************************)
(* Vocabulary of the properties                                            *)
(***************************************************************************)
IsDone(r) == r.pc = "done"

HasReturned(r) == IsDone(r) /\ r.result.status = "returned"

HasThrown(r) == IsDone(r) /\ r.result.status = "thrown"

\* the deploy mode in force (`deploy = "if_needed"` by default)
DeployModeOf(r) == IF r.options.deploy = Undefined THEN "if_needed" ELSE r.options.deploy

\* the invocation has the answer of its deployment query
Answered(r) ==
    Count(r.trace, "getClassHashAt:resolved") + Count(r.trace, "getClassHashAt:rejected") > 0

QueryFailed(r) == Count(r.trace, "getClassHashAt:rejected") > 0

\* the steps an observer gets to see (nothing without an observer)
Observed(r, steps) == IF r.options.onProgress THEN steps ELSE <<>>

\* calls that submit a transaction to the network client
Submissions(r) == Count(r.trace, "deployAccount") + Count(r.trace, "execute")

DeployDoneAndAwaited(r) ==
    Count(r.trace, "deployAccount:resolved") = 1 /\ Count(r.trace, "wait:resolved") = 1

(***************************************************************************)
(* C1  ensureReady on an undeployed account, mode "if_needed"              *)
(***************************************************************************)
C1_Case(r) ==
    /\ r.op = "ensureReady"
    /\ r.options.onProgress
    /\ DeployModeOf(r) = "if_needed"
    /\ Answered(r)
    /\ ~r.deployed

\* C1 as stated: when the deployment query reports "not deployed" and the
\* mode is "if_needed" (the default), a finished ensureReady has invoked
\* deploy exactly once and the observer has received exactly CONNECTED,
\* CHECK_DEPLOYED, DEPLOYING, READY, the query coming after CHECK_DEPLOYED
\* and the deploy call after DEPLOYING.
C1_AlwaysReachesReady ==
    \A i \in Invocations :
        LET r == inv[i] IN
        (C1_Case(r) /\ IsDone(r)) =>
            /\ Count(r.trace, "deploy") = 1
            /\ Steps(r.trace) = <<"CONNECTED", "CHECK_DEPLOYED", "DEPLOYING", "READY">>
            /\ StepIndex(r.trace, "CHECK_DEPLOYED") < FirstIndex(r.trace, "getClassHashAt")
            /\ StepIndex(r.trace, "DEPLOYING") < FirstIndex(r.trace, "deploy")

\* C1 amended: in that case ensureReady invokes deploy exactly once and the
\* observer receives CONNECTED, CHECK_DEPLOYED, DEPLOYING in that order (the
\* query after CHECK_DEPLOYED, the deploy call after DEPLOYING); READY
\* follows as the fourth and last step exactly when deploy and the wait for
\* its transaction both succeed, and otherwise no further step is received.
C1_DeploysOnceThenReadyOnSuccess ==
    \A i \in Invocations :
        LET r == inv[i] IN
        C1_Case(r) =>
            /\ Count(r.trace, "deploy") = 1
            /\ StepIndex(r.trace, "CONNECTED") = 1
            /\ StepIndex(r.trace, "CHECK_DEPLOYED") = 2
            /\ StepIndex(r.trace, "CHECK_DEPLOYED") < FirstIndex(r.trace, "getClassHashAt")
            /\ StepIndex(r.trace, "DEPLOYING") < FirstIndex(r.trace, "deploy")
            /\ FirstIndex(r.trace, "getClassHashAt") < StepIndex(r.trace, "DEPLOYING")
            /\ IF DeployDoneAndAwaited(r)
               THEN /\ HasReturned(r)
                    /\ Steps(r.trace) = <<"CONNECTED", "CHECK_DEPLOYED", "DEPLOYING", "READY">>
               ELSE /\ ~HasReturned(r)
                    /\ Steps(r.trace) = <<"CONNECTED", "CHECK_DEPLOYED", "DEPLOYING">>

C1_Witness ==
    \E i \in Invocations :
        /\ C1_Case(inv[i])
        /\ HasReturned(inv[i])
        /\ inv[i].options.deploy = Undefined

(***************************************************************************)
(* C2  ensureReady on an undeployed account, mode "never"                  *)
(***************************************************************************)
C2_Case(r) ==
    /\ r.op = "ensureReady"
    /\ DeployModeOf(r) = "never"
    /\ Answered(r)
    /\ (~r.deployed \/ QueryFailed(r))

\* C2: when the account is not deployed, or the deployment query fails, and
\* the mode is "never", ensureReady fails with the deployment-required error
\* without invoking deploy, the sponsor or any submission, and the observer
\* has received exactly CONNECTED, CHECK_DEPLOYED (never DEPLOYING or READY).
C2_NeverModeFailsWithoutDeploy ==
    \A i \in Invocations :
        LET r == inv[i] IN
        C2_Case(r) =>
            /\ HasThrown(r)
            /\ r.result.error = Err(ErrDeployNever)
            /\ Count(r.trace, "deploy") = 0
            /\ Count(r.trace, "getSponsorship") = 0
            /\ Submissions(r) = 0
            /\ Steps(r.trace) = Observed(r, <<"CONNECTED", "CHECK_DEPLOYED">>)

C2_Witness ==
    \E i \in Invocations :
        /\ C2_Case(inv[i])
        /\ QueryFailed(inv[i])
        /\ inv[i].options.onProgress
        /\ HasThrown(inv[i])

(***************************************************************************)
(* C3  when ensureReady skips deployment                                   *)
(***************************************************************************)
\* ensureReady completed without invoking deploy
SkippedDeployment(r) == HasReturned(r) /\ Count(r.trace, "deploy") = 0

\* C3: a finished ensureReady has skipped deployment (returned without
\* invoking deploy) exactly when the account was reported deployed and the
\* mode is not "always", and then the observer received CONNECTED,
\* CHECK_DEPLOYED, READY; in mode "always" DEPLOYING is emitted and deploy
\* is invoked although the account is deployed.
C3_SkipsExactlyWhenDeployedAndNotAlways ==
    \A i \in Invocations :
        LET r == inv[i] IN
        (r.op = "ensureReady" /\ Answered(r)) =>
            /\ IsDone(r) =>
                 (SkippedDeployment(r) <=> (r.deployed /\ DeployModeOf(r) # "always"))
            /\ (r.deployed /\ DeployModeOf(r) # "always") =>
                 /\ HasReturned(r)
                 /\ Count(r.trace, "deploy") = 0
                 /\ Submissions(r) = 0
                 /\ Steps(r.trace) = Observed(r, <<"CONNECTED", "CHECK_DEPLOYED", "READY">>)
            /\ DeployModeOf(r) = "always" =>
                 /\ Count(r.trace, "deploy") = 1
                 /\ r.options.onProgress =>
                      /\ StepIndex(r.trace, "DEPLOYING") > 0
                      /\ StepIndex(r.trace, "DEPLOYING") < FirstIndex(r.trace, "deploy")

C3_Witness ==
    \E i \in Invocations :
        /\ inv[i].op = "ensureReady"
        /\ inv[i].deployed
        /\ DeployModeOf(inv[i]) = "always"
        /\ inv[i].options.onProgress
        /\ Count(inv[i].trace, "deployAccount") = 1

(***************************************************************************)
(* C4  READY on the deploying path                                         *)
(***************************************************************************)
\* the wallet holds what create gave it and nothing else
WalletAsCreated ==
    wallet.exists =>
        wallet = [exists |-> TRUE, address |-> wallet.address,
                  chainId |-> creation.chainId, sponsor |-> creation.sponsor,
                  defaultFeeMode |-> creation.defaultFeeMode,
                  defaultPolicyHint |-> creation.defaultPolicyHint]

\* READY was emitted after a wait for the accepted finality states resolved
ReadyAfterAcceptedWait(r) ==
    \E k, j \in 1..Len(r.trace) :
        /\ r.trace[k] = Ev("wait", [successStates |-> {ACCEPTED_ON_L2, ACCEPTED_ON_L1}])
        /\ r.trace[j].kind = "wait:resolved"
        /\ FirstIndex(r.trace, "deployAccount:resolved") > 0
        /\ FirstIndex(r.trace, "deployAccount:resolved") < k
        /\ k < j
        /\ j < StepIndex(r.trace, "READY")

FailureKinds ==
    {"getSponsorship:rejected", "deployAccount:rejected", "execute:rejected", "wait:rejected"}

\* C4: on the deploying path of ensureReady READY is emitted only after the
\* wait of the deploy transaction for ACCEPTED_ON_L2 / ACCEPTED_ON_L1 has
\* resolved; if deploy or the wait fails the invocation throws (the error of
\* the submission or of the wait itself), READY is never emitted, and the
\* wallet's fields stay what create made them.
C4_ReadyOnlyAfterAcceptedWait ==
    \A i \in Invocations :
        LET r == inv[i] IN
        (r.op = "ensureReady" /\ Count(r.trace, "deploy") = 1) =>
            /\ StepIndex(r.trace, "READY") > 0 => ReadyAfterAcceptedWait(r)
            /\ \A k \in 1..Len(r.trace) :
                 r.trace[k].kind \in FailureKinds =>
                    /\ HasThrown(r)
                    /\ k = Len(r.trace)
                    /\ r.trace[k].kind \in {"deployAccount:rejected", "wait:rejected"}
                         => r.result.error = r.trace[k].arg.error
            /\ (IsDone(r) /\ ~DeployDoneAndAwaited(r)) =>
                 /\ HasThrown(r)
                 /\ StepIndex(r.trace, "READY") = 0
            /\ WalletAsCreated

C4_Witness ==
    \E i \in Invocations :
        /\ inv[i].op = "ensureReady"
        /\ inv[i].options.onProgress
        /\ Count(inv[i].trace, "wait:rejected") = 1
        /\ HasThrown(inv[i])

(***************************************************************************)
(* C5  isDeployed                                                          *)
(***************************************************************************)
\* the settlement of the class-hash query
QueryAnswer(r) ==
    r.trace[CHOOSE k \in 1..Len(r.trace) :
                r.trace[k].kind \in {"getClassHashAt:resolved", "getClassHashAt:rejected"}]

NonEmptyClassHash(e) ==
    e.kind = "getClassHashAt:resolved" /\ e.arg.value \notin {"", Undefined}

\* C5: isDeployed never throws; its answer is true exactly when the
\* class-hash query resolved with a non-empty class hash, and false when the
\* class hash is absent and when the query fails.
C5_IsDeployedNeverThrows ==
    \A i \in Invocations :
        LET r == inv[i] IN
        (r.op \in {"isDeployed", "ensureReady"} /\ Answered(r)) =>
            /\ r.deployed <=> NonEmptyClassHash(QueryAnswer(r))
            /\ r.op = "isDeployed" =>
                 /\ HasReturned(r)
                 /\ r.result.value = (IF NonEmptyClassHash(QueryAnswer(r))
                                      THEN "true" ELSE "false")
            /\ ~(HasThrown(r) /\ r.result.error \in ClassHashFailures)

C5_Witness ==
    \E i \in Invocations :
        /\ inv[i].op = "isDeployed"
        /\ QueryFailed(inv[i])
        /\ HasReturned(inv[i])

(***************************************************************************)
(* C6  Wallet.create validates the sponsor configuration                   *)
(***************************************************************************)
\* C6: create with default fee mode "sponsored" and no sponsor fails with
\* the configuration error before the address round trip and yields no
\* wallet; every wallet that exists with default fee mode "sponsored" has
\* a sponsor configured.
C6_SponsoredDefaultNeedsSponsor ==
    /\ (creation.pc # "idle" /\ creation.defaultFeeMode = "sponsored" /\ ~creation.sponsor) =>
          /\ creation.pc = "failed"
          /\ creation.error = Err(ErrSponsorRequired)
          /\ creation.trace = <<>>
          /\ ~wallet.exists
    /\ (wallet.exists /\ wallet.defaultFeeMode = "sponsored") => wallet.sponsor

C6_Witness ==
    /\ creation.pc = "failed"
    /\ creation.defaultFeeMode = "sponsored"
    /\ ~creation.sponsor
    /\ creation.trace = <<>>

(***************************************************************************)
(* C7  effective fee mode                                                  *)
(***************************************************************************)
\* the per-call override if one is given, otherwise the wallet's default
OverrideElseDefault(r) ==
    IF r.options.feeMode # Undefined THEN r.options.feeMode ELSE wallet.defaultFeeMode

\* the invocation is an outbound operation that has resolved its fee mode
Outbound(r) ==
    \/ r.op \in {"execute", "deploy"}
    \/ r.op = "ensureReady" /\ Count(r.trace, "deploy") = 1

\* a submission made without sponsor-supplied fee parameters
Unsponsored(e) ==
    \/ e.kind = "execute" /\ ~e.arg.hasDetails
    \/ e.kind = "deployAccount" /\ e.arg = DeployPayload

IsSubmission(e) == e.kind \in {"execute", "deployAccount"}

C8_Case(r) ==
    /\ r.op = "execute"
    /\ OverrideElseDefault(r) = "sponsored"
    /\ wallet.sponsor

\* C8: an execute whose effective fee mode is sponsored (on a wallet that
\* has a sponsor callback) invokes the callback exactly once, as its first
\* step and before any submission, with the calls it was given; what is
\* submitted afterwards are those same calls; whether the callback resolves
\* or rejects it is not invoked again.
C8_SponsorAskedOnceWithSubmittedCalls ==
    \A i \in Invocations :
        LET r == inv[i] IN
        C8_Case(r) =>
            /\ Count(r.trace, "getSponsorship") = 1
            /\ r.trace[1].kind = "getSponsorship"
            /\ r.trace[1].arg.calls = r.calls
            /\ Count(r.trace, "execute") <= 1
            /\ \A k \in 1..Len(r.trace) :
                 r.trace[k].kind = "execute" =>
                    /\ k = 3
                    /\ r.trace[2].kind = "getSponsorship:resolved"
                    /\ r.trace[k].arg.calls = r.trace[1].arg.calls
            /\ Count(r.trace, "getSponsorship:rejected") = 1 =>
                 /\ IsDone(r)
                 /\ Len(r.trace) = 2

C8_Witness ==
    \E i \in Invocations :
        /\ C8_Case(inv[i])
        /\ inv[i].calls # <<>>
        /\ HasReturned(inv[i])

(***************************************************************************)
(* C9  failures of the sponsor callback are wrapped                        *)
(***************************************************************************)
\* C9 as stated: for every failure of the sponsor callback, of any kind,
\* the operation fails with an error whose message is "Sponsorship
\* rejected: " followed by the failure's own message, the raw failure is
\* not passed through and nothing is submitted.
C9_WrapsMessageOfAnyFailure ==
    \A i \in Invocations :
        LET r == inv[i] IN
        \A k \in 1..Len(r.trace) :
            r.trace[k].kind = "getSponsorship:rejected" =>
                /\ HasThrown(r)
                /\ r.result.error.isError
                /\ r.result.error.message =
                      SponsorshipRejectedPrefix \o r.trace[k].arg.error.message
                /\ r.result.error # r.trace[k].arg.error
                /\ Submissions(r) = 0

\* C9 amended: for every failure of the sponsor callback the operation
\* fails with a single uniform error whose message is "Sponsorship
\* rejected: " followed by the failure's message when the failure is an
\* Error instance, and by "Unknown error" when any other value was thrown;
\* the raw failure is never passed through and nothing is submitted.
C9_WrapsErrorMessageElseUnknown ==
    \A i \in Invocations :
        LET r == inv[i] IN
        \A k \in 1..Len(r.trace) :
            r.trace[k].kind = "getSponsorship:rejected" =>
                /\ HasThrown(r)
                /\ r.result.error.isError
                /\ r.result.error.message =
                      (IF r.trace[k].arg.error.isError
                       THEN "Sponsorship rejected: " \o r.trace[k].arg.error.message
                       ELSE "Sponsorship rejected: Unknown error")
                /\ r.result.error # r.trace[k].arg.error
                /\ Submissions(r) = 0

C9_Witness ==
    \E i \in Invocations :
        /\ inv[i].op = "execute"
        /\ HasThrown(inv[i])
        /\ inv[i].result.error.message = "Sponsorship rejected: Rate limit exceeded"

(***************************************************************************)
(* C10  sponsored override without a sponsor                               *)
(***************************************************************************)
C10_Case(r) ==
    /\ r.op \in {"execute", "deploy"}
    /\ r.options.feeMode = "sponsored"
    /\ ~wallet.sponsor

HintElseDefault(r) ==
    IF r.options.sponsorPolicyHint # Undefined
    THEN r.options.sponsorPolicyHint
    ELSE wallet.defaultPolicyHint

\* C11: every sponsorship request carries the wallet's own address as
\* callerAddress, the configured chain identifier as chainId, and as policy
\* hint the per-call hint if supplied, otherwise the wallet's default hint
\* (undefined when there is neither).
C11_RequestCarriesAddressChainAndHint ==
    \A i \in Invocations :
        LET r == inv[i] IN
        \A k \in 1..Len(r.trace) :
            r.trace[k].kind = "getSponsorship" =>
                /\ DOMAIN r.trace[k].arg = {"calls", "callerAddress", "chainId", "policyHint"}
                /\ r.trace[k].arg.callerAddress = wallet.address
                /\ r.trace[k].arg.callerAddress \in Addresses
                /\ r.trace[k].arg.chainId = creation.chainId
                /\ r.trace[k].arg.chainId \in ChainIds
                /\ r.trace[k].arg.policyHint = HintElseDefault(r)
                /\ (r.options.sponsorPolicyHint = Undefined /\ creation.defaultPolicyHint = Undefined)
                      => r.trace[k].arg.policyHint = Undefined

C11_Witness ==
    \E i \in Invocations :
        /\ inv[i].op = "deploy"
        /\ inv[i].options.sponsorPolicyHint = Undefined
        /\ Count(inv[i].trace, "getSponsorship") = 1
        /\ inv[i].trace[FirstIndex(inv[i].trace, "getSponsorship")].arg.policyHint
              \in DefaultHints

(***************************************************************************)
(* C12  the fee mode of deployment                                         *)
(***************************************************************************)
\* the invocation has entered deploy
Deploys(r) ==
    /\ r.op \in {"deploy", "ensureReady"}
    /\ Count(r.trace, "deploy") = 1

DefinedFeeFields(s) ==
    {f \in ResponseFields : IF f = "tip" THEN s[f] # Undefined ELSE IsTruthy(s[f])}

IsPreflightResult(v) ==
    \/ v = [ok |-> TRUE]
    \/ /\ DOMAIN v = {"ok", "reason"}
       /\ v.ok = FALSE
       /\ v.reason # Undefined

\* the deployment state preflight works with, read off the query's answer
FoundDeployed(r) == NonEmptyClassHash(QueryAnswer(r))

\* C13: preflight never throws: whatever the kind, the answer or failure of
\* the deployment query, the fee mode, the sponsor configuration and the
\* outcome of the simulation (success, revert, rejection), a settled
\* preflight has returned {ok: true} or {ok: false, reason}.
C13_PreflightNeverThrows ==
    \A i \in Invocations :
        LET r == inv[i] IN
        r.op = "preflight" =>
            /\ ~HasThrown(r)
            /\ IsDone(r) => HasReturned(r) /\ IsPreflightResult(r.result.value)

C13_Witness ==
    \E i \in Invocations :
        LET r == inv[i] IN
        /\ r.op = "preflight"
        /\ Count(r.trace, "simulateTransaction:rejected") = 1
        /\ HasReturned(r)
        /\ r.result.value.ok = FALSE

(***************************************************************************)
(* C14  preflight on an account that is not deployed                       *)
(***************************************************************************)
\* the sponsor check of preflight would fail
LacksSponsor(r) == OverrideElseDefault(r) = "sponsored" /\ ~wallet.sponsor

\* C14: for a kind other than "execute" an undeployed account (a failing
\* query counts as undeployed) makes preflight return {ok: false, reason:
\* "Account not deployed"} at once: also when the sponsor check would fail,
\* and without simulating.  For kind "execute" an undeployed account does
\* not fail the check: preflight goes on to the sponsor check and the
\* simulation, and returns {ok: true} when these have nothing to object.
C14_UndeployedFailsUnlessExecute ==
    \A i \in Invocations :
        LET r == inv[i] IN
        (r.op = "preflight" /\ Answered(r) /\ ~FoundDeployed(r)) =>
            /\ r.kind # "execute" =>
                 /\ HasReturned(r)
                 /\ r.result.value = [ok |-> FALSE, reason |-> "Account not deployed"]
                 /\ Count(r.trace, "simulateTransaction") = 0
            /\ r.kind = "execute" =>
                 /\ LacksSponsor(r) =>
                      /\ HasReturned(r)
                      /\ r.result.value = [ok |-> FALSE, reason |-> "Sponsor not configured"]
                 /\ (~LacksSponsor(r) /\ r.calls = <<>>) =>
                      HasReturned(r) /\ r.result.value = [ok |-> TRUE]
                 /\ (~LacksSponsor(r) /\ r.calls # <<>>) =>
                      Count(r.trace, "simulateTransaction") = 1

C14_Witness ==
    \E i \in Invocations :
        LET r == inv[i] IN
        /\ r.op = "preflight"
        /\ r.kind = "deploy"
        /\ Answered(r) /\ ~FoundDeployed(r)
        /\ LacksSponsor(r)
        /\ r.calls # <<>>
        /\ HasReturned(r)
        /\ r.result.value.reason = "Account not deployed"


(***************************************************************************)
(* C15  sponsored preflight without a sponsor                              *)
(***************************************************************************)
\* C15 as stated: a settled preflight whose effective fee mode is sponsored,
\* on a wallet without a sponsor, has returned {ok: false, reason: "Sponsor
\* not configured"} and has not simulated.
C15_NoSponsorAlwaysReported ==
    \A i \in Invocations :
        LET r == inv[i] IN
        (r.op = "preflight" /\ LacksSponsor(r) /\ IsDone(r)) =>
            /\ HasReturned(r)
            /\ r.result.value = [ok |-> FALSE, reason |-> "Sponsor not configured"]
            /\ Count(r.trace, "simulateTransaction") = 0

\* C15 amended: a preflight whose effective fee mode (override, else the
\* wallet's default) is sponsored, on a wallet without a sponsor, returns a
\* failed check as soon as the deployment query is answered and never
\* simulates, calls or no calls; the reason is "Sponsor not configured",
\* except that for a kind other than "execute" on an undeployed account it
\* is "Account not deployed", the check that comes first.
C15_NoSponsorFailsAfterDeploymentCheck ==
    \A i \in Invocations :
        LET r == inv[i] IN
        (r.op = "preflight" /\ LacksSponsor(r)) =>
            /\ Count(r.trace, "simulateTransaction") = 0
            /\ Answered(r) =>
                 /\ HasReturned(r)
                 /\ r.result.value =
                      [ok |-> FALSE,
                       reason |-> IF ~FoundDeployed(r) /\ r.kind # "execute"
                                  THEN "Account not deployed"
                                  ELSE "Sponsor not configured"]

C15_Witness ==
    \E i \in Invocations :
        LET r == inv[i] IN
        /\ r.op = "preflight"
        /\ r.kind = "execute"
        /\ r.options.feeMode = "sponsored"
        /\ ~wallet.sponsor
        /\ r.calls # <<>>
        /\ HasReturned(r)
        /\ r.result.value.reason = "Sponsor not configured"

(***************************************************************************)
(* C16  the simulation of preflight                                        *)
(***************************************************************************)
\* the deployment check and the sponsor check of preflight have passed
EarlierChecksPass(r) ==
    /\ Answered(r)
    /\ FoundDeployed(r) \/ r.kind = "execute"
    /\ ~LacksSponsor(r)

\* the simulation reports a revert reason
ReportsRevert(sim) == sim.shape = "reverted" /\ sim.revertReason # Undefined

\* the simulation reports no revert
ReportsNoRevert(sim) == sim.shape # "reverted"

\* C16: with calls and the earlier checks passed, preflight runs one
\* simulation, of one INVOKE transaction whose payload is exactly the calls
\* given; a reported revert reason (the empty string included) becomes
\* {ok: false, reason} verbatim, and a simulation reporting no revert
\* becomes {ok: true}.  Without calls nothing is simulated, and passed
\* earlier checks give {ok: true}.
C16_SimulatesGivenCallsAndReportsRevert ==
    \A i \in Invocations :
        LET r == inv[i] IN
        r.op = "preflight" =>
            /\ r.calls = <<>> =>
                 /\ Count(r.trace, "simulateTransaction") = 0
                 /\ EarlierChecksPass(r) => HasReturned(r) /\ r.result.value = [ok |-> TRUE]
            /\ (r.calls # <<>> /\ EarlierChecksPass(r)) =>
                 /\ Count(r.trace, "simulateTransaction") = 1
                 /\ \A k \in 1..Len(r.trace) :
                      /\ r.trace[k].kind = "simulateTransaction" =>
                           r.trace[k].arg = [type |-> "INVOKE", payload |-> r.calls]
                      /\ r.trace[k].kind = "simulateTransaction:resolved" =>
                           LET sim == r.trace[k].arg.simulation
                           IN  /\ HasReturned(r)
                               /\ ReportsRevert(sim) =>
                                    r.result.value =
                                       [ok |-> FALSE, reason |-> sim.revertReason]
                               /\ ReportsNoRevert(sim) => r.result.value = [ok |-> TRUE]

C16_Witness ==
    \E i \in Invocations :
        LET r == inv[i] IN
        /\ r.op = "preflight"
        /\ r.calls # <<>>
        /\ \E k \in 1..Len(r.trace) :
              /\ r.trace[k].kind = "simulateTransaction:resolved"
              /\ r.trace[k].arg.simulation.revertReason = "Insufficient balance"
        /\ HasReturned(r)
        /\ r.result.value = [ok |-> FALSE, reason |-> "Insufficient balance"]


(***************************************************************************)
(* C17  preflight submits nothing                                          *)
(***************************************************************************)
\* the external interactions open to preflight, with their settlements
PreflightInteractions ==
    {"getClassHashAt", "getClassHashAt:resolved", "getClassHashAt:rejected",
     "simulateTransaction", "simulateTransaction:resolved", "simulateTransaction:rejected"}

\* C17: preflight never submits (neither deployAccount nor execute of the
\* network client is called) and never invokes the sponsor callback, also
\* when a sponsor is configured and the mode is sponsored; all it does
\* outside the wallet is one class-hash query and at most one simulation.
C17_PreflightSubmitsNothing ==
    \A i \in Invocations :
        LET r == inv[i] IN
        r.op = "preflight" =>
            /\ Submissions(r) = 0
            /\ Count(r.trace, "getSponsorship") = 0
            /\ \A k \in 1..Len(r.trace) : r.trace[k].kind \in PreflightInteractions
            /\ Count(r.trace, "getClassHashAt") = 1
            /\ Count(r.trace, "simulateTransaction") <= 1

C17_Witness ==
    \E i \in Invocations :
        LET r == inv[i] IN
        /\ r.op = "preflight"
        /\ OverrideElseDefault(r) = "sponsored"
        /\ wallet.sponsor
        /\ r.calls # <<>>
        /\ Count(r.trace, "simulateTransaction:resolved") = 1
        /\ HasReturned(r)
        /\ r.result.value = [ok |-> TRUE]

(***************************************************************************)
(* C18  exceptions during preflight                                        *)
(***************************************************************************)
\* the collaborator calls of preflight that can fail
PreflightFailureKinds == {"getClassHashAt:rejected", "simulateTransaction:rejected"}

\* C18 as stated: whatever fails during preflight, the deployment query
\* included, the result is {ok: false} with the message of what was
\* thrown as its reason.
C18_EveryFailureReportedWithItsMessage ==
    \A i \in Invocations :
        LET r == inv[i] IN
        (r.op = "preflight" /\ IsDone(r)) =>
            \A k \in 1..Len(r.trace) :
                r.trace[k].kind \in PreflightFailureKinds =>
                    /\ HasReturned(r)
                    /\ r.result.value =
                         [ok |-> FALSE, reason |-> r.trace[k].arg.error.message]

\* C18 amended: a failing simulation is reported as {ok: false} whose
\* reason is the message of the Error thrown, and "Unknown error" when
\* what was thrown is not an Error.  A failing deployment query is not
\* reported: isDeployed absorbs it, and preflight goes on as for an
\* account that is not deployed ("Account not deployed" for a kind other
\* than "execute", the remaining checks for "execute"), the message of the
\* failure appearing nowhere.  The sponsor check raises nothing.
C18_SimulationFailureReportedQueryFailureAbsorbed ==
    \A i \in Invocations :
        LET r == inv[i] IN
        r.op = "preflight" =>
            \A k \in 1..Len(r.trace) :
                /\ r.trace[k].kind = "simulateTransaction:rejected" =>
                     LET e == r.trace[k].arg.error
                     IN  /\ HasReturned(r)
                         /\ r.result.value =
                              [ok |-> FALSE,
                               reason |-> IF e.isError THEN e.message ELSE "Unknown error"]
                /\ r.trace[k].kind = "getClassHashAt:rejected" =>
                     LET e == r.trace[k].arg.error
                     IN  /\ ~HasThrown(r)
                         /\ r.kind # "execute" =>
                              /\ HasReturned(r)
                              /\ r.result.value =
                                   [ok |-> FALSE, reason |-> "Account not deployed"]
                         /\ (r.kind = "execute" /\ ~LacksSponsor(r) /\ r.calls = <<>>) =>
                              HasReturned(r) /\ r.result.value = [ok |-> TRUE]
                         /\ (r.kind = "execute" /\ ~LacksSponsor(r) /\ r.calls # <<>>) =>
                              Count(r.trace, "simulateTransaction") = 1
                         /\ HasReturned(r) =>
                              r.result.value # [ok |-> FALSE, reason |-> e.message]

C18_Witness ==
    \E i \in Invocations :
        LET r == inv[i] IN
        /\ r.op = "preflight"
        /\ \E k \in 1..Len(r.trace) :
              /\ r.trace[k].kind = "simulateTransaction:rejected"
              /\ r.trace[k].arg.error.isError
              /\ HasReturned(r)
              /\ r.result.value.reason = r.trace[k].arg.error.message


(***************************************************************************)
(* C19  fromUnit and toUnit                                                *)
(***************************************************************************)
\* fromUnit was given the string and accepted it, and toUnit was called
UnitRoundTrip ==
    /\ calc.made = "fromUnit"
    /\ calc.input.type = "string"
    /\ calc.amount.status = "returned"
    /\ calc.unit.status = "returned"

HasPoint(text) == \E k \in 1..Len(text) : text[k] = "."

RECURSIVE WithoutTrailing(_, _)
WithoutTrailing(text, c) ==
    IF text # <<>> /\ text[Len(text)] = c
    THEN WithoutTrailing(SubSeq(text, 1, Len(text) - 1), c)
    ELSE text

\* the numeral without trailing fractional zeros and without a bare
\* trailing decimal point
TrimmedNumeral(text) ==
    IF ~HasPoint(text) THEN text
    ELSE LET z == WithoutTrailing(text, "0")
         IN  IF z[Len(z)] = "." THEN SubSeq(z, 1, Len(z) - 1) ELSE z

\* the numeral without the redundant leading zeros of its integer part
RECURSIVE WithoutLeadingZeros(_)
WithoutLeadingZeros(text) ==
    IF Len(text) > 1 /\ text[1] = "0" /\ text[2] # "."
    THEN WithoutLeadingZeros(Tail(text))
    ELSE text

\* C19 as stated: for every string s that fromUnit accepts with the given
\* decimals, fromUnit(s, decimals).toUnit() is s without its trailing
\* fractional zeros and without a bare trailing decimal point.
C19_RoundTripUpToTrailingZeros ==
    UnitRoundTrip => calc.unit.value = TrimmedNumeral(calc.input.text)

\* C19 amended: for every string s that fromUnit accepts with the given
\* decimals, fromUnit(s, decimals).toUnit() is s without its trailing
\* fractional zeros, without a bare trailing decimal point and without the
\* redundant leading zeros of its integer part ("01.50" gives "1.5", "00"
\* gives "0").
C19_RoundTripUpToRedundantZeros ==
    UnitRoundTrip => calc.unit.value = WithoutLeadingZeros(TrimmedNumeral(calc.input.text))

C19_Witness ==
    /\ UnitRoundTrip
    /\ calc.input.text = <<"0", "1", ".", "0">>
    /\ calc.decimals = 2
    /\ calc.unit.value = <<"1">>

(***************************************************************************)
(* C20  fromBase and toBase                                                *)
(***************************************************************************)
Numerals ==
    [c \in {"0", "1", "2", "3", "4", "5", "6", "7", "8", "9"} |->
        CASE c = "0" -> 0 [] c = "1" -> 1 [] c = "2" -> 2 [] c = "3" -> 3 [] c = "4" -> 4
          [] c = "5" -> 5 [] c = "6" -> 6 [] c = "7" -> 7 [] c = "8" -> 8 [] c = "9" -> 9]

RECURSIVE Pow10(_)
Pow10(n) == IF n = 0 THEN 1 ELSE 10 * Pow10(n - 1)

\* the decimal string of a non-negative integer: digits, no leading zero
\* except for "0" itself
IsDecimalString(text) ==
    /\ text # <<>>
    /\ \A k \in 1..Len(text) : text[k] \in DOMAIN Numerals
    /\ Len(text) = 1 \/ text[1] # "0"

\* the integer a decimal string stands for, digit by digit from position k
RECURSIVE PositionalValue(_, _)
PositionalValue(text, k) ==
    IF k > Len(text) THEN 0
    ELSE Numerals[text[k]] * Pow10(Len(text) - k) + PositionalValue(text, k + 1)

\* the input is a non-negative integer b, as an integer or as its decimal
\* string
GivesInteger(x) == x.type \in {"bigint", "number"} \/ IsDecimalString(x.text)

GivenInteger(x) == IF x.type = "string" THEN PositionalValue(x.text, 1) ELSE x.value

\* C20: for every non-negative integer b, given as an integer or as its
\* decimal string, and every number of decimals, fromBase(b, decimals)
\* succeeds, the amount holds b as its base value with those decimals, and
\* toBase() returns b.
C20_BaseFidelity ==
    (calc.made = "fromBase" /\ GivesInteger(calc.input)) =>
        /\ calc.amount.status = "returned"
        /\ calc.amount.value.baseValue = GivenInteger(calc.input)
        /\ calc.amount.value.decimals = calc.decimals
        /\ calc.base.status = "returned" => calc.base.value = GivenInteger(calc.input)

C20_Witness ==
    /\ calc.made = "fromBase"
    /\ calc.input = [type |-> "string", text |-> <<"1", "5", "0">>]
    /\ calc.decimals = 2
    /\ calc.base = [status |-> "returned", value |-> 150]


(***************************************************************************)
(* C21  eq is symmetric                                                    *)
(***************************************************************************)
\* the amounts differ in decimals, or carry two different symbols
Incompatible(a, b) ==
    \/ a.decimals # b.decimals
    \/ a.symbol # Undefined /\ b.symbol # Undefined /\ a.symbol # b.symbol

\* C21: for every pair of amounts a and b, whatever their decimals and
\* whether or not their symbols are set, a.eq(b) and b.eq(a) return the
\* same value, and both return false when a and b are incompatible.
C21_EqSymmetric ==
    (IsComparison /\ calc.method = "eq") =>
        /\ calc.forward.value = calc.backward.value
        /\ Incompatible(calc.this, calc.other) =>
             calc.forward.value = FALSE /\ calc.backward.value = FALSE

C21_Witness ==
    /\ IsComparison
    /\ calc.method = "eq"
    /\ calc.this.symbol = Undefined
    /\ calc.other.symbol = "ETH"
    /\ calc.this.baseValue = 1
    /\ calc.forward.value = TRUE
    /\ calc.backward.value = TRUE


(***************************************************************************)
(* C22  what fromUnit accepts and what it makes of it                      *)
(***************************************************************************)
\* the position of the decimal point of a text with exactly one, else 0
PointOf(text) ==
    IF \E k \in 1..Len(text) : text[k] = "."
    THEN CHOOSE k \in 1..Len(text) : text[k] = "."
    ELSE 0

\* a non-negative plain decimal numeral: digits, optionally followed by a
\* point and digits; no sign, no exponent
IsPlainNumeral(text) ==
    /\ text # <<>>
    /\ \A k \in 1..Len(text) : text[k] \in DOMAIN Numerals \/ k = PointOf(text)
    /\ PointOf(text) # 1
    /\ PointOf(text) # Len(text)

IntegerPart(text) ==
    IF PointOf(text) = 0 THEN text ELSE SubSeq(text, 1, PointOf(text) - 1)

FractionPart(text) ==
    IF PointOf(text) = 0 THEN <<>> ELSE SubSeq(text, PointOf(text) + 1, Len(text))

\* integerPart * 10^decimals plus the fractional digits right-padded to
\* decimals places
UnitsInBase(text, decimals) ==
    PositionalValue(IntegerPart(text), 1) * Pow10(decimals)
    + PositionalValue(FractionPart(text), 1) * Pow10(decimals - Len(FractionPart(text)))

LastCallIs(methods) == IsArithmetic /\ calc.last.method \in methods

\* the symbol carried by either operand (none if neither carries one)
CarriedSymbol(a, b) == IF a.symbol # Undefined THEN a.symbol ELSE b.symbol

\* C23: a.add(b) and a.subtract(b) return exactly when a and b are
\* compatible (equal decimals; symbols equal or unset on at least one
\* side) and throw an Error otherwise.  The amount returned has the exact
\* sum or difference as base value, the operands' decimals and the symbol
\* carried by either operand; the chain goes on from it, and after a throw
\* from the receiver as it was.
C23_AddSubtractExactWhenCompatible ==
    LastCallIs({"add", "subtract"}) =>
        LET a == calc.last.this
            b == calc.last.arg
            out == calc.last.outcome
        IN  /\ ~Incompatible(a, b) =>
                 /\ out = Returns([baseValue |-> IF calc.last.method = "add"
                                                 THEN a.baseValue + b.baseValue
                                                 ELSE a.baseValue - b.baseValue,
                                   decimals |-> a.decimals,
                                   symbol |-> CarriedSymbol(a, b)])
                 /\ b.decimals = out.value.decimals
                 /\ calc.this = out.value
            /\ Incompatible(a, b) =>
                 /\ out.status = "thrown"
                 /\ out.error.isError
                 /\ calc.this = a

C23_Witness ==
    /\ LastCallIs({"add"})
    /\ calc.last.this = [baseValue |-> 1, decimals |-> 1, symbol |-> Undefined]
    /\ calc.last.arg = [baseValue |-> 2, decimals |-> 1, symbol |-> "ETH"]
    /\ calc.last.outcome.status = "returned"
    /\ calc.last.outcome.value.symbol = "ETH"
    /\ calc.unit = Returns(<<"0", ".", "3">>)


(***************************************************************************)
(* C24  multiply and divide by the same scalar                             *)
(***************************************************************************)
NonZeroDigit(text) == \E k \in 1..Len(text) : text[k] \in DOMAIN Numerals \ {"0"}

\* the scalar is a valid one: an integer, or a plain decimal numeral
IsValidScalar(k) == k.type \in {"bigint", "number"} \/ IsPlainNumeral(k.text)

\* a valid scalar greater than zero
IsPositiveScalar(k) ==
    /\ IsValidScalar(k)
    /\ IF k.type = "string" THEN NonZeroDigit(k.text) ELSE k.value > 0

\* a valid scalar that is a positive whole number
IsPositiveWhole(k) ==
    /\ IsValidScalar(k)
    /\ IF k.type = "string"
       THEN NonZeroDigit(IntegerPart(k.text)) /\ ~NonZeroDigit(FractionPart(k.text))
       ELSE k.value > 0

\* the first n characters of the text
Prefix(text, n) == SubSeq(text, 1, IF Len(text) < n THEN Len(text) ELSE n)

\* a valid scalar that is zero once cut to 18 fractional digits
ScalesToZero(k) ==
    /\ IsValidScalar(k)
    /\ IF k.type = "string"
       THEN ~NonZeroDigit(IntegerPart(k.text))
            /\ ~NonZeroDigit(Prefix(FractionPart(k.text), 18))
       ELSE k.value = 0

\* C24 as stated: for every non-negative amount a and every valid scalar
\* k > 0, a.multiply(k).divide(k) is an amount whose base value does not
\* exceed a's, and equals it when k is a positive whole number.
C24_ScalingBackNeverExceeds ==
    (IsScaling /\ calc.quotient # NotCalled /\ IsPositiveScalar(calc.scalar)) =>
        /\ calc.quotient.status = "returned"
        /\ calc.quotient.value.baseValue <= calc.receiver.baseValue
        /\ IsPositiveWhole(calc.scalar) =>
             calc.quotient.value.baseValue = calc.receiver.baseValue

\* C24 amended: for every non-negative amount a and every valid scalar k
\* that is not zero once cut to 18 fractional digits, a.multiply(k).divide(k)
\* is an amount whose base value does not exceed a's, and equals it when k
\* is a positive whole number; for a scalar k > 0 below 10^-18 multiply
\* returns zero and divide throws "Division by zero".
C24_ScalingBackUnlessScaledToZero ==
    (IsScaling /\ calc.quotient # NotCalled /\ IsPositiveScalar(calc.scalar)) =>
        IF ScalesToZero(calc.scalar)
        THEN /\ calc.product.value.baseValue = 0
             /\ calc.quotient = Throws(Err("Division by zero"))
        ELSE /\ calc.quotient.status = "returned"
             /\ calc.quotient.value.baseValue <= calc.receiver.baseValue
             /\ calc.quotient.value.decimals = calc.receiver.decimals
             /\ IsPositiveWhole(calc.scalar) =>
                  calc.quotient.value.baseValue = calc.receiver.baseValue

C24_Witness ==
    /\ IsScaling
    /\ calc.receiver.baseValue = 2
    /\ calc.scalar = [type |-> "string", text |-> <<"0", ".", "3">>]
    /\ calc.product.status = "returned"
    /\ calc.product.value.baseValue = 0
    /\ calc.quotient.status = "returned"
    /\ calc.quotient.value.baseValue = 0


(***************************************************************************)
(* C25  divide                                                             *)
(***************************************************************************)
\* the fractional digits of the scalar that count: the first 18, without
\* trailing zeros
CountedFraction(text) == WithoutTrailing(Prefix(FractionPart(text), 18), "0")

\* floor(base * 10^18 / scaled(k)) for base >= 0 and a valid scalar that
\* does not scale to zero, common powers of ten cancelled
FloorQuotient(base, k) ==
    IF k.type = "string"
    THEN (base * Pow10(Len(CountedFraction(k.text))))
         \div PositionalValue(IntegerPart(k.text) \o CountedFraction(k.text), 1)
    ELSE base \div k.value

\* C25: divide(k) throws the Error "Division by zero" exactly when k is a
\* valid scalar that is zero once scaled to 18 fractional digits, and then
\* makes no amount.  For every other valid scalar, on a non-negative
\* amount, it returns an amount with the floor of baseValue * 10^18 /
\* scaled(k) as base value and the receiver's decimals and symbol.
C25_DivideFloorsAndRejectsZero ==
    LastCallIs({"divide"}) =>
        LET a == calc.last.this
            k == calc.last.arg
            out == calc.last.outcome
        IN  /\ out = Throws(Err("Division by zero")) <=> ScalesToZero(k)
            /\ out.status = "thrown" => calc.this = a
            /\ (IsValidScalar(k) /\ ~ScalesToZero(k) /\ a.baseValue >= 0) =>
                 /\ out = Returns([baseValue |-> FloorQuotient(a.baseValue, k),
                                   decimals |-> a.decimals,
                                   symbol |-> a.symbol])
                 /\ calc.this = out.value

C25_Witness ==
    /\ LastCallIs({"divide"})
    /\ calc.last.this.baseValue = 2
    /\ calc.last.this.decimals = 1
    /\ calc.last.arg = [type |-> "string", text |-> <<"0", ".", "3">>]
    /\ calc.last.outcome.status = "returned"
    /\ calc.last.outcome.value.baseValue = 6
    /\ calc.unit = Returns(<<"0", ".", "6">>)


(***************************************************************************)
(* C26  comparisons                                                        *)
(***************************************************************************)
\* the integer comparison a method stands for
IntegerComparison(method, x, y) ==
    CASE method = "eq" -> x = y
      [] method = "gt" -> x > y
      [] method = "gte" -> x >= y
      [] method = "lt" -> x < y
      [] method = "lte" -> x <= y

\* C26: for incompatible operands eq, gt, gte, lt and lte all return false
\* (none throws), in either direction; for compatible operands each
\* returns the result of the integer comparison of the two base values.
C26_ComparisonsFalseWhenIncompatible ==
    (IsComparison /\ calc.method # "none") =>
        /\ calc.forward.status = "returned"
        /\ calc.backward.status = "returned"
        /\ Incompatible(calc.this, calc.other) =>
             calc.forward.value = FALSE /\ calc.backward.value = FALSE
        /\ ~Incompatible(calc.this, calc.other) =>
             /\ calc.forward.value =
                  IntegerComparison(calc.method, calc.this.baseValue, calc.other.baseValue)
             /\ calc.backward.value =
                  IntegerComparison(calc.method, calc.other.baseValue, calc.this.baseValue)

C26_Witness ==
    /\ IsComparison
    /\ calc.method = "gte"
    /\ calc.this = [baseValue |-> 2, decimals |-> 2, symbol |-> "ETH"]
    /\ calc.other = [baseValue |-> 1, decimals |-> 2, symbol |-> "STRK"]
    /\ calc.forward = Returns(FALSE)
    /\ calc.backward = Returns(FALSE)


(***************************************************************************)
(* C27  the merge of the fee parameters                                    *)
(***************************************************************************)
\* the response defines the field: it is neither absent nor null
Defines(s, f) == s[f] \notin {Undefined, "null"}

\* the fee options of a sponsored submission
FeeOptionsOf(e) ==
    IF e.kind = "execute" THEN e.arg.details
    ELSE [f \in DOMAIN e.arg \ DOMAIN DeployPayload |-> e.arg[f]]

\* the event is the submission made with the response before it
IsSponsoredSubmission(trace, k) ==
    /\ k > 1
    /\ IsSubmission(trace[k])
    /\ trace[k - 1].kind = "getSponsorship:resolved"

\* C27: the options of a sponsored submission contain resourceBounds,
\* paymasterData, accountDeploymentData and tip each exactly when the
\* response defines the field, with the value of the response (zero and
\* empty values included); they contain no null or undefined entry and no
\* other field of the response.
C27_MergeAdditiveAndNullSafe ==
    \A i \in Invocations :
        \A k \in 1..Len(inv[i].trace) :
            IsSponsoredSubmission(inv[i].trace, k) =>
                LET s == inv[i].trace[k - 1].arg.response
                    d == FeeOptionsOf(inv[i].trace[k])
                IN  /\ \A f \in ResponseFields :
                         /\ f \in DOMAIN d <=> Defines(s, f)
                         /\ f \in DOMAIN d => d[f] = s[f]
                    /\ \A f \in DOMAIN d : d[f] \notin {Undefined, "null"}
                    /\ DOMAIN d \subseteq ResponseFields


(***************************************************************************)
(* C28: in every interleaving of two concurrent sponsored execute calls on *)
(* one wallet, each sponsor request carries the calls and the policy hint  *)
(* of its own invocation, each submission carries its own calls with the   *)
(* fee parameters of the response to its own request, and no field of the  *)
(* wallet changes                                                          *)
(***************************************************************************)
FeeParameters == {"resourceBounds", "paymasterData", "accountDeploymentData", "tip"}

\* the details hold nothing but fee parameters of this response, and every
\* fee parameter the response provides
FromResponse(details, response) ==
    /\ DOMAIN details \subseteq FeeParameters
    /\ \A f \in DOMAIN details : details[f] = response[f]
    /\ \A f \in FeeParameters :
          response[f] \notin {Undefined, "null"} => f \in DOMAIN details

OwnRequestsAndSubmissions(r) ==
    \A k \in 1..Len(r.trace) :
        /\ r.trace[k].kind = "getSponsorship" =>
              /\ r.trace[k].arg.calls = r.calls
              /\ r.trace[k].arg.policyHint = HintElseDefault(r)
        /\ r.trace[k].kind = "execute" =>
              /\ r.trace[k].arg.calls = r.calls
              /\ k > 1
              /\ r.trace[k - 1].kind = "getSponsorship:resolved"
              /\ r.trace[k].arg.hasDetails
              /\ FromResponse(r.trace[k].arg.details, r.trace[k - 1].arg.response)

WalletFieldsKept == wallet.exists => wallet' = wallet

C28_ConcurrentExecutesIndependent ==
    /\ [](\A i \in Invocations :
             (inv[i].op = "execute" /\ inv[i].options.feeMode = "sponsored")
                 => OwnRequestsAndSubmissions(inv[i]))
    /\ [][WalletFieldsKept]_vars

C28_Witness ==
    /\ \A i \in Invocations :
          /\ inv[i].op = "execute"
          /\ inv[i].pc = "awaitExecute"
          /\ Count(inv[i].trace, "getSponsorship") = 1
          /\ Count(inv[i].trace, "execute") = 1
    /\ inv[1].calls # inv[2].calls
    /\ inv[1].options.sponsorPolicyHint # inv[2].options.sponsorPolicyHint
    /\ inv[1].trace[Len(inv[1].trace)].arg.details
          # inv[2].trace[Len(inv[2].trace)].arg.details


(***************************************************************************)
(* C29: each ensureReady invocation asks for the deployment status exactly *)
(* once and decides from that one answer, whatever other invocations do:   *)
(* two concurrent ensureReady calls in mode "if_needed" that both see "not *)
(* deployed" each emit CONNECTED, CHECK_DEPLOYED, DEPLOYING and each       *)
(* submit a deploy transaction of their own                                *)
(***************************************************************************)
AnswerCount(r) ==
    Count(r.trace, "getClassHashAt:resolved") + Count(r.trace, "getClassHashAt:rejected")

\* the submission follows once everything awaited before it has resolved
ReachedSubmission(r) ==
    IF OverrideElseDefault(r) = "sponsored"
    THEN Count(r.trace, "getSponsorship:resolved") = 1
    ELSE r.pc # "awaitPublicKey"

DeploysOnItsOwn(r) ==
    /\ Len(Steps(r.trace)) >= 3
    /\ SubSeq(Steps(r.trace), 1, 3) = <<"CONNECTED", "CHECK_DEPLOYED", "DEPLOYING">>
    /\ Count(r.trace, "deploy") = 1
    /\ Count(r.trace, "getPublicKey") = 1
    /\ Count(r.trace, "deployAccount") = (IF ReachedSubmission(r) THEN 1 ELSE 0)

Unsigned(text) == IF text # <<>> /\ text[1] = "-" THEN Tail(text) ELSE text

IsSignedNumeral(text) == IsPlainNumeral(Unsigned(text))

SignedUnitsInBase(text, decimals) ==
    IF text[1] = "-" THEN 0 - UnitsInBase(Unsigned(text), decimals)
    ELSE UnitsInBase(text, decimals)

C30_ToUnitWellFormedAndExact ==
    (IsArithmetic /\ calc.unit # NotCalled) =>
        /\ IsSignedNumeral(calc.unit.value)
        /\ Len(FractionPart(Unsigned(calc.unit.value))) <= calc.this.decimals
        /\ SignedUnitsInBase(calc.unit.value, calc.this.decimals) = calc.this.baseValue

====
